---- MODULE Spec2Model ----
(***************************************************************************)
(* Model of the advanced A2A payments agent (class Executor, listed in     *)
(* README.md) : the keyword intent router, the task handlers, the          *)
(* streaming loop, the push-notification background finalizer and the      *)
(* execute entry point with its two exception boundaries.                  *)
(*                                                                         *)
(* JavaScript strings are TLA+ strings; TLC evaluates Len, SubSeq and \o   *)
(* on them.  The texts of the model hold no line terminator, so the        *)
(* regular expressions' "." matches every character of them.  Non-ASCII    *)
(* decoration of the reply texts (emoji, bullets, arrows) is written in    *)
(* ASCII.                                                                  *)
(***************************************************************************)
EXTENDS Integers, Sequences, FiniteSets, TLC

(***************************************************************************)
(* String helpers: what String.prototype.toLowerCase / includes / trim     *)
(* and the character classes \d \s \w compute.                             *)
(***************************************************************************)
UpperLetters == "ABCDEFGHIJKLMNOPQRSTUVWXYZ"

LowerLetters == "abcdefghijklmnopqrstuvwxyz"

Digits == "0123456789"

\* s[i], 1-based; "" outside the string
CharAt(s, i) == IF 1 <= i /\ i <= Len(s) THEN SubSeq(s, i, i) ELSE ""

IndexIn(c, alphabet) ==
    IF \E i \in 1..Len(alphabet) : CharAt(alphabet, i) = c
    THEN CHOOSE i \in 1..Len(alphabet) : CharAt(alphabet, i) = c
    ELSE 0

UpperSet == {CharAt(UpperLetters, n) : n \in 1..Len(UpperLetters)}

LowerSet == {CharAt(LowerLetters, n) : n \in 1..Len(LowerLetters)}

DigitSet == {CharAt(Digits, n) : n \in 1..Len(Digits)}

LowerOf == [u \in UpperSet |-> CharAt(LowerLetters, IndexIn(u, UpperLetters))]

LowerChar(c) == IF c \in UpperSet THEN LowerOf[c] ELSE c

RECURSIVE toLowerCase(_)
toLowerCase(s) ==
    IF s = "" THEN ""
    ELSE LowerChar(CharAt(s, 1)) \o toLowerCase(SubSeq(s, 2, Len(s)))

IsDigit(c) == c \in DigitSet

IsSpace(c) == c \in {" ", "\t", "\n"}

IsWordChar(c) == c \in UpperSet \/ c \in LowerSet \/ IsDigit(c) \/ c = "_"

IsQuote(c) == c \in {"'", "\""}

\* s.startsWith(k, i), 1-based
StartsAt(s, k, i) == i + Len(k) - 1 <= Len(s) /\ SubSeq(s, i, i + Len(k) - 1) = k

\* s.includes(k)
includes(s, k) == \E i \in 1..(Len(s) + 1) : StartsAt(s, k, i)

\* first index >= i of s that holds no whitespace (Len(s)+1 when none): a greedy \s*
RECURSIVE SkipSpaces(_, _)
SkipSpaces(s, i) ==
    IF i <= Len(s) /\ IsSpace(CharAt(s, i)) THEN SkipSpaces(s, i + 1) ELSE i

RECURSIVE TrimEnd(_)
TrimEnd(s) ==
    IF s # "" /\ IsSpace(CharAt(s, Len(s))) THEN TrimEnd(SubSeq(s, 1, Len(s) - 1)) ELSE s

trim(s) == TrimEnd(SubSeq(s, SkipSpaces(s, 1), Len(s)))

\* a character class that lets letters through
IsMathCharOrLetter(c) ==
    IsDigit(c) \/ c \in {"+", "-", "*", "/", "(", ")", "."} \/ c \in LowerSet \/ c \in UpperSet

\* the characters the class [0-9+\-*/().] holds
IsMathChar(c) == IsDigit(c) \/ c \in {"+", "-", "*", "/", "(", ")", "."}

\* s.replace(/[^0-9+\-*/().]/g, "")
RECURSIVE StripNonMath(_)
StripNonMath(s) ==
    IF s = "" THEN ""
    ELSE (IF IsMathChar(CharAt(s, 1)) THEN CharAt(s, 1) ELSE "")
         \o StripNonMath(SubSeq(s, 2, Len(s)))

(***************************************************************************)
(* Content detection methods                                               *)
(***************************************************************************)
greetings == <<"hello", "hi", "hey", "good morning", "good afternoon", "good evening">>

mathKeywords == <<"calculate", "math", "compute", "solve", "what is", "=">>

translationKeywords == <<"translate", "translation", "say in", "how do you say">>

\* list.some(k => text.toLowerCase().includes(k))
SomeIncluded(list, text) ==
    LET lower == toLowerCase(text)
    IN  \E n \in 1..Len(list) : includes(lower, list[n])

isGreeting(text) == SomeIncluded(greetings, text)

hasNumbers(text) == \E i \in 1..Len(text) : IsDigit(CharAt(text, i))

hasOperators(text) ==
    \E i \in 1..Len(text) : CharAt(text, i) \in {"+", "-", "*", "/", "(", ")"}

isCalculation(text) ==
    SomeIncluded(mathKeywords, text) \/ (hasNumbers(text) /\ hasOperators(text))

isWeatherRequest(text) == includes(toLowerCase(text), "weather")

isTranslationRequest(text) == SomeIncluded(translationKeywords, text)

isStreamingRequest(text) == includes(toLowerCase(text), "stream")

isPushNotificationRequest(text) == includes(toLowerCase(text), "push notification")

\* classify with the calculation test moved before the greeting test
classifyCalculationFirst(text) ==
    IF isCalculation(text) THEN "Calculation"
    ELSE IF isGreeting(text) THEN "Greeting"
    ELSE IF isWeatherRequest(text) THEN "Weather"
    ELSE IF isTranslationRequest(text) THEN "Translation"
    ELSE IF isStreamingRequest(text) THEN "Streaming"
    ELSE IF isPushNotificationRequest(text) THEN "PushNotification"
    ELSE "General"

\* the if / else-if chain of handleTask: the first detector that answers true
classify(text) ==
    IF isGreeting(text) THEN "Greeting"
    ELSE IF isCalculation(text) THEN "Calculation"
    ELSE IF isWeatherRequest(text) THEN "Weather"
    ELSE IF isTranslationRequest(text) THEN "Translation"
    ELSE IF isStreamingRequest(text) THEN "Streaming"
    ELSE IF isPushNotificationRequest(text) THEN "PushNotification"
    ELSE "General"

(***************************************************************************)
(* eval(expression) on the residual expression of handleCalculation: a     *)
(* string over 0-9 + - * / ( ) .  evaluated as strict-mode JavaScript.     *)
(* Values are exact rationals num/den (den > 0, lowest terms); a division  *)
(* by zero gives a non-finite value (Infinity, -Infinity and NaN are not   *)
(* told apart) and does not throw.  InFragment delimits what is modelled:  *)
(* no exponent operator, no comment opener and no "/" in operand position  *)
(* (a regular-expression literal).                                         *)
(***************************************************************************)
InFragment(e) ==
    /\ ~includes(e, "**")
    /\ ~includes(e, "//")
    /\ ~includes(e, "/*")
    /\ CharAt(e, 1) # "/"
    /\ \A i \in 2..Len(e) :
          CharAt(e, i) = "/" => CharAt(e, i - 1) \notin {"+", "-", "*", "/", "("}

Abs(n) == IF n < 0 THEN -n ELSE n

RECURSIVE Gcd(_, _)
Gcd(a, b) == IF b = 0 THEN a ELSE Gcd(b, a % b)

NonFinite == [kind |-> "nonfinite"]

\* the number n/d, d # 0
Rat(n, d) ==
    LET g == Gcd(Abs(n), Abs(d))
        sg == IF d < 0 THEN -1 ELSE 1
    IN  [kind |-> "number", num |-> sg * (n \div g), den |-> sg * (d \div g)]

Num(n) == Rat(n, 1)

IsFinite(v) == v.kind = "number"

Add(a, b) ==
    IF IsFinite(a) /\ IsFinite(b)
    THEN Rat(a.num * b.den + b.num * a.den, a.den * b.den) ELSE NonFinite

Sub(a, b) ==
    IF IsFinite(a) /\ IsFinite(b)
    THEN Rat(a.num * b.den - b.num * a.den, a.den * b.den) ELSE NonFinite

Mul(a, b) ==
    IF IsFinite(a) /\ IsFinite(b) THEN Rat(a.num * b.num, a.den * b.den) ELSE NonFinite

Div(a, b) ==
    IF IsFinite(a) /\ IsFinite(b) /\ b.num # 0
    THEN Rat(a.num * b.den, a.den * b.num) ELSE NonFinite

Neg(a) == IF IsFinite(a) THEN Rat(-a.num, a.den) ELSE NonFinite

RECURSIVE Pow10(_)
Pow10(k) == IF k = 0 THEN 1 ELSE 10 * Pow10(k - 1)

\* first index >= i of s that holds no digit
RECURSIVE SkipDigits(_, _)
SkipDigits(s, i) == IF IsDigit(CharAt(s, i)) THEN SkipDigits(s, i + 1) ELSE i

\* the value of the digits s[i..j-1]
RECURSIVE DigitsValue(_, _, _)
DigitsValue(s, i, j) ==
    IF j <= i THEN 0
    ELSE 10 * DigitsValue(s, i, j - 1) + (IndexIn(CharAt(s, j - 1), Digits) - 1)

SyntaxError == [ok |-> FALSE]

Parsed(v, p) == [ok |-> TRUE, val |-> v, pos |-> p]

\* a numeric literal at s[i]: 12  1.5  1.  .5 ; a leading 0 before a digit is a
\* strict-mode SyntaxError
ParseNumber(s, i) ==
    LET j == SkipDigits(s, i)
    IN  IF j > i
        THEN IF j - i > 1 /\ CharAt(s, i) = "0" THEN SyntaxError
             ELSE IF CharAt(s, j) = "."
                  THEN LET k == SkipDigits(s, j + 1)
                       IN  Parsed(Rat(DigitsValue(s, i, j) * Pow10(k - j - 1)
                                        + DigitsValue(s, j + 1, k),
                                      Pow10(k - j - 1)), k)
                  ELSE Parsed(Num(DigitsValue(s, i, j)), j)
        ELSE IF CharAt(s, i) = "."
             THEN LET k == SkipDigits(s, i + 1)
                  IN  IF k > i + 1
                      THEN Parsed(Rat(DigitsValue(s, i + 1, k), Pow10(k - i - 1)), k)
                      ELSE SyntaxError
             ELSE SyntaxError

RECURSIVE ParseExpr(_, _)
RECURSIVE ExprRest(_, _, _)
RECURSIVE ParseTerm(_, _)
RECURSIVE TermRest(_, _, _)
RECURSIVE ParseUnary(_, _)
RECURSIVE ParsePrimary(_, _)

ParsePrimary(s, i) ==
    IF CharAt(s, i) = "("
    THEN LET r == ParseExpr(s, i + 1)
         IN  IF r.ok /\ CharAt(s, r.pos) = ")" THEN Parsed(r.val, r.pos + 1)
             ELSE SyntaxError
    ELSE ParseNumber(s, i)

\* "++" and "--" lex as the update operators, which no literal may take
ParseUnary(s, i) ==
    LET c == CharAt(s, i)
    IN  IF c \in {"+", "-"}
        THEN IF CharAt(s, i + 1) = c THEN SyntaxError
             ELSE LET r == ParseUnary(s, i + 1)
                  IN  IF ~r.ok THEN SyntaxError
                      ELSE Parsed(IF c = "-" THEN Neg(r.val) ELSE r.val, r.pos)
        ELSE ParsePrimary(s, i)

TermRest(s, acc, i) ==
    LET c == CharAt(s, i)
    IN  IF c \in {"*", "/"}
        THEN LET r == ParseUnary(s, i + 1)
             IN  IF ~r.ok THEN SyntaxError
                 ELSE TermRest(s, IF c = "*" THEN Mul(acc, r.val) ELSE Div(acc, r.val),
                               r.pos)
        ELSE Parsed(acc, i)

ParseTerm(s, i) ==
    LET r == ParseUnary(s, i)
    IN  IF r.ok THEN TermRest(s, r.val, r.pos) ELSE SyntaxError

ExprRest(s, acc, i) ==
    LET c == CharAt(s, i)
    IN  IF c \in {"+", "-"}
        THEN IF CharAt(s, i + 1) = c THEN SyntaxError
             ELSE LET r == ParseTerm(s, i + 1)
                  IN  IF ~r.ok THEN SyntaxError
                      ELSE ExprRest(s, IF c = "+" THEN Add(acc, r.val)
                                       ELSE Sub(acc, r.val), r.pos)
        ELSE Parsed(acc, i)

ParseExpr(s, i) ==
    LET r == ParseTerm(s, i)
    IN  IF r.ok THEN ExprRest(s, r.val, r.pos) ELSE SyntaxError

\* eval(expression): a value, or an exception (SyntaxError, or TypeError for a call
\* on a number, which leaves unread input here)
Eval(expression) ==
    LET r == ParseExpr(expression, 1)
    IN  IF r.ok /\ r.pos = Len(expression) + 1
        THEN [throws |-> FALSE, value |-> r.val]
        ELSE [throws |-> TRUE]

\* String(n) for a natural number n
RECURSIVE NatToString(_)
NatToString(n) ==
    IF n < 10 THEN CharAt(Digits, n + 1)
    ELSE NatToString(n \div 10) \o CharAt(Digits, (n % 10) + 1)

\* the decimal digits of n/d, 0 <= n < d, to at most k places
RECURSIVE FractionDigits(_, _, _)
FractionDigits(n, d, k) ==
    IF n = 0 \/ k = 0 THEN ""
    ELSE CharAt(Digits, ((10 * n) \div d) + 1) \o FractionDigits((10 * n) % d, d, k - 1)

MaxFractionDigits == 17

\* `${result}`
NumberToString(v) ==
    IF ~IsFinite(v) THEN "NonFinite"
    ELSE LET a == Abs(v.num)
             frac == FractionDigits(a % v.den, v.den, MaxFractionDigits)
         IN  (IF v.num < 0 THEN "-" ELSE "")
             \o NatToString(a \div v.den)
             \o (IF frac = "" THEN "" ELSE "." \o frac)

(***************************************************************************)
(* Task handlers.  A TaskHandlerResult is [parts, metadata, state]; the    *)
(* push-notification handler's result has no metadata field.  Message ids  *)
(* (uuidv4) and timestamps are left out of messages and events.            *)
(***************************************************************************)
planId == "plan-id"

TextPart(t) == [kind |-> "text", text |-> t]

handleGreeting(userText) ==
    LET greeting == IF isGreeting(userText) THEN userText ELSE "Hello"
    IN  [parts |-> << TextPart(
                greeting \o "! I'm your AI assistant with payment integration. I can help you with:\n"
                \o "- Greetings and information (1 credit)\n"
                \o "- Mathematical calculations (2 credits)\n"
                \o "- Weather information (3 credits)\n"
                \o "- Language translations (4 credits)\n"
                \o "- Streaming responses (5 credits)\n\n"
                \o "Just ask me anything!") >>,
         metadata |-> [creditsUsed |-> 1, planId |-> planId,
                       costDescription |-> "Basic greeting response",
                       operationType |-> "greeting"],
         state |-> "completed"]

calculationTriggers == <<"calculate", "math", "compute", "solve", "what is">>

\* the trigger that /(calculate|math|compute|solve|what is)\s+/i matches at index
\* p of text (lower: text in lower case), by its place in the list; 0 when none
TriggerAt(text, lower, p) ==
    IF \E n \in 1..Len(calculationTriggers) :
          /\ StartsAt(lower, calculationTriggers[n], p)
          /\ IsSpace(CharAt(text, p + Len(calculationTriggers[n])))
    THEN CHOOSE n \in 1..Len(calculationTriggers) :
          /\ StartsAt(lower, calculationTriggers[n], p)
          /\ IsSpace(CharAt(text, p + Len(calculationTriggers[n])))
    ELSE 0

\* the first index >= p where a trigger followed by whitespace starts; 0 when none
RECURSIVE FirstTrigger(_, _, _)
FirstTrigger(text, lower, p) ==
    IF p > Len(text) THEN 0
    ELSE IF TriggerAt(text, lower, p) > 0 THEN p
    ELSE FirstTrigger(text, lower, p + 1)

\* text.replace(/.*?(calculate|math|compute|solve|what is)\s+/i, ""): the lazy .*?
\* stops at the first index where a trigger followed by whitespace starts, the
\* greedy \s+ takes all the whitespace after it, and everything up to there goes
StripTrigger(text) ==
    LET lower == toLowerCase(text)
        p == FirstTrigger(text, lower, 1)
        n == TriggerAt(text, lower, p)
    IN  IF p = 0 THEN text
        ELSE SubSeq(text, SkipSpaces(text, p + Len(calculationTriggers[n])), Len(text))

\* ResidualExpression that keeps the characters the second replace removes
ResidualExpressionAsWritten(userText) == StripTrigger(userText)

\* the string handleCalculation hands to eval
ResidualExpression(userText) == StripNonMath(StripTrigger(userText))

handleCalculation(userText) ==
    LET expression == ResidualExpression(userText)
    IN  IF expression = ""
        THEN [parts |-> << TextPart("Error: Please provide a valid mathematical expression") >>,
              metadata |-> [creditsUsed |-> 1, planId |-> planId,
                            operationType |-> "calculation_error"],
              state |-> "failed"]
        ELSE IF ~Eval(expression).throws
        THEN LET result == Eval(expression).value
             IN  [parts |-> << TextPart("Calculation Result:\n" \o expression \o " = "
                                        \o NumberToString(result)) >>,
                  metadata |-> [creditsUsed |-> 2, planId |-> planId,
                                costDescription |-> "Mathematical calculation",
                                operationType |-> "calculation",
                                expression |-> expression, result |-> result],
                  state |-> "completed"]
        ELSE [parts |-> << TextPart("Error: Invalid mathematical expression") >>,
              metadata |-> [creditsUsed |-> 1, planId |-> planId,
                            expression |-> expression,
                            operationType |-> "calculation_error"],
              state |-> "failed"]

(***************************************************************************)
(* Math.random() returns k / RandomDen for a k of RandomNumerators: the    *)
(* least value, a middle one and the greatest below 1.                     *)
(***************************************************************************)
RandomDen == 40

RandomNumerators == {0, RandomDen \div 2, RandomDen - 1}

\* Math.floor(Math.random() * n) for the draw k / RandomDen
FloorRandom(k, n) == (k * n) \div RandomDen

conditions == <<"Sunny", "Cloudy", "Rainy", "Snowy", "Windy", "Partly Cloudy">>

\* a weather report whose values are not shifted to the start of their ranges
simulateWeatherAPIUnshifted(location, rnd) ==
    [location |-> location,
     description |-> conditions[FloorRandom(rnd[1], Len(conditions)) + 1],
     temperature |-> FloorRandom(rnd[2], 30),
     humidity |-> FloorRandom(rnd[3], 40),
     windSpeed |-> FloorRandom(rnd[4], 20)]

\* rnd: the four draws of Math.random() in the order of the calls
simulateWeatherAPI(location, rnd) ==
    [location |-> location,
     description |-> conditions[FloorRandom(rnd[1], Len(conditions)) + 1],
     temperature |-> FloorRandom(rnd[2], 30) + 5,
     humidity |-> FloorRandom(rnd[3], 40) + 30,
     windSpeed |-> FloorRandom(rnd[4], 20) + 5]

\* the first index >= p where /weather\s+/i matches; 0 when none
RECURSIVE FirstWeather(_, _, _)
FirstWeather(text, lower, p) ==
    IF p > Len(text) THEN 0
    ELSE IF StartsAt(lower, "weather", p) /\ IsSpace(CharAt(text, p + Len("weather")))
         THEN p
    ELSE FirstWeather(text, lower, p + 1)

\* userText.replace(/.*?weather\s+(?:in\s+)?/i, "").trim()
ExtractLocation(userText) ==
    LET lower == toLowerCase(userText)
        p == FirstWeather(userText, lower, 1)
        a == SkipSpaces(userText, p + Len("weather"))
        b == IF StartsAt(lower, "in", a) /\ IsSpace(CharAt(userText, a + Len("in")))
             THEN SkipSpaces(userText, a + Len("in")) ELSE a
    IN  IF p = 0 THEN trim(userText)
        ELSE trim(SubSeq(userText, b, Len(userText)))

handleWeatherRequest(userText, rnd) ==
    LET location == ExtractLocation(userText)
        weatherData == simulateWeatherAPI(location, rnd)
    IN  IF location = ""
        THEN [parts |-> << TextPart("Error: Please specify a location for weather information") >>,
              metadata |-> [creditsUsed |-> 1, planId |-> planId,
                            operationType |-> "weather_error"],
              state |-> "failed"]
        ELSE [parts |-> << TextPart("Weather in " \o location \o ":\n"
                    \o weatherData.description \o ", "
                    \o NatToString(weatherData.temperature) \o " C\nHumidity: "
                    \o NatToString(weatherData.humidity) \o "%\nWind: "
                    \o NatToString(weatherData.windSpeed) \o " km/h") >>,
              metadata |-> [creditsUsed |-> 3, planId |-> planId,
                            costDescription |-> "Weather information request",
                            operationType |-> "weather",
                            location |-> location, weatherData |-> weatherData],
              state |-> "completed"]

\* first index >= i of s that holds a quote (Len(s)+1 when none): a greedy [^'"]*
RECURSIVE SkipNonQuotes(_, _)
SkipNonQuotes(s, i) ==
    IF i <= Len(s) /\ ~IsQuote(CharAt(s, i)) THEN SkipNonQuotes(s, i + 1) ELSE i

\* first index >= i of s that holds no word character: a greedy \w*
RECURSIVE SkipWord(_, _)
SkipWord(s, i) == IF IsWordChar(CharAt(s, i)) THEN SkipWord(s, i + 1) ELSE i

\* /translate\s+['"]([^'"]+)['"]\s+to\s+(\w+)/i tried at index p of s (lower: s
\* in lower case): the indices the pieces of the pattern reach
TranslateAt(s, lower, p) ==
    LET q1 == p + Len("translate")
        q2 == SkipSpaces(s, q1)
        q3 == SkipNonQuotes(s, q2 + 1)
        q4 == SkipSpaces(s, q3 + 1)
        q5 == SkipSpaces(s, q4 + Len("to"))
        q6 == SkipWord(s, q5)
    IN  [ok |-> /\ StartsAt(lower, "translate", p)
                /\ q2 > q1
                /\ IsQuote(CharAt(s, q2))
                /\ q3 > q2 + 1
                /\ IsQuote(CharAt(s, q3))
                /\ q4 > q3 + 1
                /\ StartsAt(lower, "to", q4)
                /\ q5 > q4 + Len("to")
                /\ q6 > q5,
         text |-> SubSeq(s, q2 + 1, q3 - 1),
         targetLanguage |-> SubSeq(s, q5, q6 - 1)]

\* the first index >= p where the pattern matches; 0 when none
RECURSIVE FirstTranslate(_, _, _)
FirstTranslate(s, lower, p) ==
    IF p > Len(s) THEN 0
    ELSE IF TranslateAt(s, lower, p).ok THEN p
    ELSE FirstTranslate(s, lower, p + 1)

\* userText.match(...): the leftmost match, or none
translationMatch(userText) ==
    LET lower == toLowerCase(userText)
        p == FirstTranslate(userText, lower, 1)
    IN  IF p = 0 THEN [ok |-> FALSE] ELSE TranslateAt(userText, lower, p)

translations ==
    [spanish |-> [hello |-> "hola", goodbye |-> "adios", thank_you |-> "gracias",
                  good_morning |-> "buenos dias", how_are_you |-> "como estas?"],
     french  |-> [hello |-> "bonjour", goodbye |-> "au revoir", thank_you |-> "merci",
                  good_morning |-> "bonjour", how_are_you |-> "comment allez-vous?"],
     german  |-> [hello |-> "hallo", goodbye |-> "auf wiedersehen", thank_you |-> "danke",
                  good_morning |-> "guten morgen", how_are_you |-> "wie geht es dir?"]]

\* the phrase-table key of a lowercased phrase ("" when the table has no such key)
PhraseKey(lowerText) ==
    CASE lowerText = "hello" -> "hello"
      [] lowerText = "goodbye" -> "goodbye"
      [] lowerText = "thank you" -> "thank_you"
      [] lowerText = "good morning" -> "good_morning"
      [] lowerText = "how are you" -> "how_are_you"
      [] OTHER -> ""

(***************************************************************************)
(* translations and its language tables are object literals: a property    *)
(* they do not own is looked up in Object.prototype, whose "constructor"   *)
(* is the function Object.  The names below are the all-lowercase ones,    *)
(* the only ones a lowercased key can hit.  Reading "caller" or            *)
(* "arguments" of a built-in function throws a TypeError.                  *)
(***************************************************************************)
JsUndefined == [type |-> "undefined"]

JsNull == [type |-> "null"]

JsString(s) == [type |-> "string", value |-> s]

JsNumber(n) == [type |-> "number", value |-> n]

JsObject(ref) == [type |-> "object", ref |-> ref]

JsFunction(ref) == [type |-> "function", ref |-> ref]

JsThrow(message) == [type |-> "throw", message |-> message]

RestrictedPropertyMessage ==
    "'caller', 'callee', and 'arguments' properties may not be accessed on strict mode functions or the arguments objects for calls to them"

\* the static methods of Object with an all-lowercase name
ObjectStatics == {"assign", "create", "entries", "freeze", "is", "keys", "seal", "values"}

\* receiver[key] as answered by Object.prototype
ObjectPrototypeGet(receiver, key) ==
    CASE key = "constructor" -> JsFunction("Object")
      [] key = "__proto__" ->
            IF receiver = "Object.prototype" THEN JsNull ELSE JsObject("Object.prototype")
      [] OTHER -> JsUndefined

\* Object[key]: the function's own properties, then those of Function.prototype
ObjectFunctionGet(key) ==
    CASE key = "name" -> JsString("Object")
      [] key = "length" -> JsNumber(1)
      [] key = "prototype" -> JsObject("Object.prototype")
      [] key \in ObjectStatics -> JsFunction(key)
      [] key \in {"caller", "arguments"} -> JsThrow(RestrictedPropertyMessage)
      [] key \in {"apply", "bind", "call"} -> JsFunction(key)
      [] key = "constructor" -> JsFunction("Function")
      [] key = "__proto__" -> JsFunction("")
      [] OTHER -> JsUndefined

\* holder[key] for the objects the lookup of simulateTranslation can reach
Get(holder, key) ==
    CASE holder = "translations" ->
            IF key \in DOMAIN translations THEN JsObject(key)
            ELSE ObjectPrototypeGet(holder, key)
      [] holder \in DOMAIN translations ->
            IF PhraseKey(key) # "" THEN JsString(translations[holder][PhraseKey(key)])
            ELSE ObjectPrototypeGet(holder, key)
      [] holder = "Object.prototype" -> ObjectPrototypeGet(holder, key)
      [] holder = "Object" -> ObjectFunctionGet(key)

\* whether if (v) takes the branch
Truthy(v) ==
    CASE v.type \in {"undefined", "null", "throw"} -> FALSE
      [] v.type = "string" -> v.value # ""
      [] v.type = "number" -> v.value # 0
      [] OTHER -> TRUE

\* `${v}`
TemplateString(v) ==
    CASE v.type = "string" -> v.value
      [] v.type = "number" -> NatToString(v.value)
      [] v.type = "function" -> "function " \o v.ref \o "() { [native code] }"
      [] v.type = "object" -> "[object Object]"

\* the value simulateTranslation returns, or the exception its lookup throws
simulateTranslation(text, targetLanguage) ==
    LET lang == toLowerCase(targetLanguage)
        lowerText == toLowerCase(text)
        table == Get("translations", lang)
        entry == Get(table.ref, lowerText)
    IN  IF ~Truthy(table) THEN JsString(text \o " (" \o targetLanguage \o ")")
        ELSE IF entry.type = "throw" THEN entry
        ELSE IF Truthy(entry) THEN entry
        ELSE JsString(text \o " (" \o targetLanguage \o ")")

\* an exception that leaves a handler
Escapes(error) == [thrown |-> error]

Escaped(r) == "thrown" \in DOMAIN r

handleTranslationRequest(userText) ==
    LET m == translationMatch(userText)
    IN  IF ~m.ok
        THEN [parts |-> << TextPart("Error: Please use format: 'translate \"text\" to language'") >>,
              metadata |-> [creditsUsed |-> 1, planId |-> planId,
                            operationType |-> "translation_error"],
              state |-> "failed"]
        ELSE LET translation == simulateTranslation(m.text, m.targetLanguage)
             IN  IF translation.type = "throw"
                 THEN Escapes([isError |-> TRUE, message |-> translation.message])
                 ELSE
                 [parts |-> << TextPart("Translation:\n\"" \o m.text \o "\" -> \""
                                \o TemplateString(translation) \o "\" (" \o m.targetLanguage \o ")") >>,
                  metadata |-> [creditsUsed |-> 4, planId |-> planId,
                                costDescription |-> "Language translation",
                                operationType |-> "translation",
                                originalText |-> m.text,
                                targetLanguage |-> m.targetLanguage,
                                translatedText |-> translation],
                  state |-> "completed"]

handleGeneralRequest(userText) ==
    [parts |-> << TextPart(
            "I received your request: \"" \o userText \o "\"\n\n"
            \o "I'm an AI assistant with payment integration. Each operation costs different credits:\n"
            \o "- Greetings: 1 credit\n"
            \o "- Calculations: 2 credits\n"
            \o "- Weather: 3 credits\n"
            \o "- Translations: 4 credits\n"
            \o "- Streaming: 5 credits\n\n"
            \o "Try asking me to calculate something, get weather info, or translate text!") >>,
     metadata |-> [creditsUsed |-> 1, planId |-> planId,
                   costDescription |-> "General request processing",
                   operationType |-> "general"],
     state |-> "completed"]

\* StreamingResult charged as a translation
StreamingResultFourCredits ==
    [parts |-> << TextPart("Streaming started!") >>,
     metadata |-> [creditsUsed |-> 4, planId |-> planId,
                   costDescription |-> "Streaming response",
                   operationType |-> "streaming", streamingType |-> "text"],
     state |-> "completed"]

\* what handleStreamingRequest returns after its loop
StreamingResult ==
    [parts |-> << TextPart("Streaming started! You will receive 60 messages via SSE (one per second).\nCheck your /message/stream subscription.") >>,
     metadata |-> [creditsUsed |-> 5, planId |-> planId,
                   costDescription |-> "Streaming response",
                   operationType |-> "streaming", streamingType |-> "text"],
     state |-> "completed"]

PushWaitingText == "Push notification request received. Waiting for pushNotificationConfig..."

\* PushResult with a terminal state
PushResultCompleted == [parts |-> << TextPart(PushWaitingText) >>, state |-> "completed"]

\* what handlePushNotificationRequest returns: no metadata
PushResult == [parts |-> << TextPart(PushWaitingText) >>, state |-> "working"]

(***************************************************************************)
(* Thrown values.  An event-bus call that raises throws an Error with a    *)
(* message or a value that is no Error.                                    *)
(***************************************************************************)
Thrown == {[isError |-> TRUE, message |-> "event bus failure"],
           [isError |-> FALSE, message |-> "bus down"]}

\* ProcessingErrorResult tagged as the outer boundary tags its event
ProcessingErrorResultAgentTag(error) ==
    [parts |-> << TextPart("Error: " \o (IF error.isError THEN error.message
                                         ELSE "Unknown error occurred")) >>,
     metadata |-> [creditsUsed |-> 1, planId |-> planId,
                   errorType |-> "agent_error"],
     state |-> "failed"]

\* the catch block of handleTask
ProcessingErrorResult(error) ==
    [parts |-> << TextPart("Error: " \o (IF error.isError THEN error.message
                                         ELSE "Unknown error occurred")) >>,
     metadata |-> [creditsUsed |-> 1, planId |-> planId,
                   errorType |-> "processing_error"],
     state |-> "failed"]

(***************************************************************************)
(* Requests, events and the event bus                                      *)
(***************************************************************************)
TaskIds == {"t1", "t2"}

ContextOf(t) == "ctx-" \o t

\* a property that is not set
Undefined == [undefined |-> TRUE]

\* the texts a user message may carry
Texts ==
    {"Hello there!", "Calculate 15 * 7", "Weather in London",
     "Translate \"hello\" to Spanish", "Start streaming",
     "Send me a push notification", "Hello, calculate 2+2", "Calculate ",
     "Translate \"bonjour\"", "Translate \"goodbye\" to French",
     "translate 'cat' to Dutch", "Calculate 2+", "Math: 100/4",
     "What is the weather today", "weather", "Weather ", "Weather in",
     "Tell me a joke", "Stream a push notification", "",
     "Translate \"caller\" to constructor"}

UserMessage(parts) ==
    [kind |-> "message", role |-> "user", parts |-> parts, metadata |-> Undefined]

\* a text part, a part that is no text, or no part at all
Messages ==
    {UserMessage(<< TextPart(t) >>) : t \in Texts}
    \cup {UserMessage(<< [kind |-> "file"] >>), UserMessage(<< >>)}

\* a task record the transport attaches to a follow-up message of a known task
ExistingTask(t, userMessage) ==
    [kind |-> "task", id |-> t, contextId |-> ContextOf(t),
     status |-> [state |-> "working"], artifacts |-> << >>,
     history |-> << UserMessage(<< TextPart("earlier") >>), userMessage >>,
     metadata |-> Undefined]

\* the messages that also arrive as follow-ups of a known task
FollowUpTexts == {"Hello there!", "Start streaming"}

RequestContext(t, userMessage, task) ==
    [taskId |-> t, contextId |-> ContextOf(t), userMessage |-> userMessage, task |-> task]

Requests(t) ==
    {RequestContext(t, m, Undefined) : m \in Messages}
    \cup {RequestContext(t, UserMessage(<< TextPart(x) >>),
                         ExistingTask(t, UserMessage(<< TextPart(x) >>)))
          : x \in FollowUpTexts}

NoRequest == [none |-> TRUE]

\* a task record built with an empty history
NewTaskWithoutHistory(req) ==
    [kind |-> "task", id |-> req.taskId, contextId |-> req.contextId,
     status |-> [state |-> "submitted"], artifacts |-> << >>,
     history |-> << >>, metadata |-> req.userMessage.metadata]

\* the task record execute builds when the request carries none
NewTask(req) ==
    [kind |-> "task", id |-> req.taskId, contextId |-> req.contextId,
     status |-> [state |-> "submitted"], artifacts |-> << >>,
     history |-> << req.userMessage >>, metadata |-> req.userMessage.metadata]

StatusUpdate(taskId, contextId, state, parts, final, metadata) ==
    [kind |-> "status-update", taskId |-> taskId, contextId |-> contextId,
     status |-> [state |-> state,
                 message |-> [kind |-> "message", role |-> "agent", parts |-> parts,
                              taskId |-> taskId, contextId |-> contextId]],
     final |-> final, metadata |-> metadata]

\* the mark eventBus.finished() leaves on the bus
FinishedMark == [kind |-> "finished"]

\* a loop bound that is one short
totalMessagesOneShort == 10 - 1

totalMessages == 10

\* ProgressEvent marked final
ProgressEventMarkedFinal(req, i) ==
    StatusUpdate(req.taskId, req.contextId, "working",
        << TextPart("Streaming message " \o NatToString(i) \o "/10") >>, TRUE, Undefined)

\* ProgressEvent that counts the passes from 0
ProgressEventCountedFromZero(req, i) ==
    StatusUpdate(req.taskId, req.contextId, "working",
        << TextPart("Streaming message " \o NatToString(i - 1) \o "/"
                    \o NatToString(totalMessages)) >>, FALSE, Undefined)

\* the event of the i-th pass of the streaming loop
ProgressEvent(req, i) ==
    StatusUpdate(req.taskId, req.contextId, "working",
        << TextPart("Streaming message " \o NatToString(i) \o "/"
                    \o NatToString(totalMessages)) >>, FALSE, Undefined)

StreamingFinishedEvent(req) ==
    StatusUpdate(req.taskId, req.contextId, "working",
        << TextPart("Streaming finished!") >>, FALSE, Undefined)

PushWorkingEvent(req) ==
    StatusUpdate(req.taskId, req.contextId, "working",
        << TextPart(PushWaitingText) >>, FALSE, Undefined)

\* PushCompletedEvent with the ids of the first task, whichever task it is for
PushCompletedEventOfFirstTask(taskId, contextId) ==
    StatusUpdate("t1", ContextOf("t1"), "completed",
        << TextPart("Push notification task completed!") >>, TRUE,
        [completed |-> TRUE, creditsUsed |-> 5, planId |-> planId,
         costDescription |-> "Push notification task completed",
         operationType |-> "push_notification"])

\* the event finalizePushNotificationTask publishes
PushCompletedEvent(taskId, contextId) ==
    StatusUpdate(taskId, contextId, "completed",
        << TextPart("Push notification task completed!") >>, TRUE,
        [completed |-> TRUE, creditsUsed |-> 5, planId |-> planId,
         costDescription |-> "Push notification task completed",
         operationType |-> "push_notification"])

\* a final state that is "completed" whatever the result
StateAlwaysCompleted(result) == "completed"

\* result.state || "completed"
StateOrCompleted(result) ==
    IF "state" \in DOMAIN result /\ result.state # "" THEN result.state ELSE "completed"

\* result.metadata
MetadataOf(result) ==
    IF "metadata" \in DOMAIN result THEN result.metadata ELSE Undefined

\* a final update that leaves the metadata of the result out
FinalUpdateWithoutMetadata(req, result) ==
    StatusUpdate(req.taskId, req.contextId, StateOrCompleted(result), result.parts,
                 TRUE, Undefined)

\* finalUpdate of execute
FinalUpdate(req, result) ==
    StatusUpdate(req.taskId, req.contextId, StateOrCompleted(result), result.parts,
                 TRUE, MetadataOf(result))

\* errorUpdate of execute's catch block
ErrorUpdate(req, error) ==
    StatusUpdate(req.taskId, req.contextId, "failed",
        << TextPart("Agent error: " \o error.message) >>, TRUE,
        [errorType |-> "agent_error"])

\* userText of handleTask: the text of the first part when it is a text part
UserText(req) ==
    LET parts == req.userMessage.parts
    IN  IF Len(parts) > 0 /\ parts[1].kind = "text" THEN parts[1].text ELSE ""

(***************************************************************************)
(* State.  Every task has its own request context and event bus.           *)
(*   arrivals[t]  which requests may still arrive for task t               *)
(*   request[t]   the RequestContext execute was invoked with              *)
(*   pc[t]        where execute stands                                     *)
(*   i[t]         the counter of the streaming loop                        *)
(*   result[t], expectsMoreUpdates[t]   what handleTask returned           *)
(*   error[t]     the value execute's catch block caught                   *)
(*   fin[t]       where finalizePushNotificationTask stands                *)
(*   bus[t]       the calls the event bus accepted, in order: the events   *)
(*                published and the marks of finished()                    *)
(*   raises[t]    how many event-bus calls raised                          *)
(*   cancels[t]   how many calls of cancelTask(t) were logged              *)
(* handled is the last direct call of a handler: its name, its arguments   *)
(* and what it returned.                                                   *)
(* The transport client of client.ts and the stream consumers:             *)
(*   fetches      the requests handed to fetch, in order                   *)
(*   returns      the calls of the client's operations with the response   *)
(*                each got and what it returned, in order                  *)
(*   console      the lines written with console.log and console.error     *)
(*   nodeStream   the response body sendStreamingMessage listens to        *)
(*   buffer, streamClosed   the two variables of its "data" listener       *)
(*   awaited      the for-await loop of payments-client.ts over a stream   *)
(***************************************************************************)
VARIABLES arrivals, request, pc, i, result, expectsMoreUpdates, handlerError, error,
          fin, bus, raises, cancels, handled,
          calls, fetches, returns, console, nodeStream, buffer, streamClosed, awaited

\* what execute, handleTask and the finalizer read and write
executorVars == <<arrivals, request, pc, i, result, expectsMoreUpdates, handlerError, error,
                  fin, bus, raises>>

\* what the transport client and the stream consumers read and write
clientVars == <<calls, fetches, returns, console, nodeStream, buffer, streamClosed, awaited>>

\* what execute, handleTask and the finalizer leave alone
restVars == <<cancels, handled, clientVars>>

vars == <<executorVars, restVars>>

\* how many event-bus calls may raise for one task
MaxRaises == 2

NoResult == [none |-> TRUE]

NoError == [none |-> TRUE]

\* the requests of the tasks that run interleaved: those of the two handlers that
\* suspend, and one of a handler that does not
InterleavedTexts == {"Start streaming", "Send me a push notification", "Hello there!"}

RequestsFor(tag, t) ==
    CASE tag = "any" -> Requests(t)
      [] tag = "streaming" ->
            {RequestContext(t, UserMessage(<< TextPart("Start streaming") >>), Undefined)}
      [] tag = "interleaved" ->
            {RequestContext(t, UserMessage(<< TextPart(x) >>), Undefined) : x \in InterleavedTexts}
      [] OTHER -> {}

\* the four draws simulateWeatherAPI makes
RandomDraws == RandomNumerators \X RandomNumerators \X RandomNumerators \X RandomNumerators

\* what an event-bus call may do: return, or raise while it may still
BusOutcomes(t) ==
    {[raised |-> FALSE]}
    \cup (IF raises[t] < MaxRaises THEN {[raised |-> TRUE, error |-> e] : e \in Thrown}
          ELSE {})

\* no handler was called directly
NoCall == [none |-> TRUE]

\* the executor before any call of execute; arr: the requests that may arrive,
\* raised: how many of the MaxRaises raises of its event bus a task has seen already
InitExecutor(arr, raised) ==
    /\ arrivals = arr
    /\ request = [t \in TaskIds |-> NoRequest]
    /\ pc = [t \in TaskIds |-> "idle"]
    /\ i = [t \in TaskIds |-> 0]
    /\ result = [t \in TaskIds |-> NoResult]
    /\ expectsMoreUpdates = [t \in TaskIds |-> FALSE]
    /\ handlerError = [t \in TaskIds |-> NoError]
    /\ error = [t \in TaskIds |-> NoError]
    /\ fin = [t \in TaskIds |-> "none"]
    /\ bus = [t \in TaskIds |-> << >>]
    /\ raises = [t \in TaskIds |-> raised]
    /\ cancels = [t \in TaskIds |-> 0]

\* no stream is open
NoStream == [state |-> "none"]

\* the client before any call of its operations
InitClient ==
    /\ calls = 0
    /\ fetches = << >>
    /\ returns = << >>
    /\ console = << >>
    /\ nodeStream = NoStream
    /\ buffer = ""
    /\ streamClosed = FALSE
    /\ awaited = NoStream

\* one task arrives, with any request
Init ==
    /\ InitExecutor([t \in TaskIds |-> IF t = "t1" THEN "any" ELSE "none"], 0)
    /\ handled = NoCall
    /\ InitClient

\* eventBus.publish(event) of task t with outcome o
Published(t, event, o) ==
    /\ ~o.raised
    /\ bus' = [bus EXCEPT ![t] = Append(@, event)]
    /\ raises' = raises

\* an event-bus call of task t that raises: the bus takes nothing
Raised(t, o) ==
    /\ o.raised
    /\ bus' = bus
    /\ raises' = [raises EXCEPT ![t] = @ + 1]

\* handleTask returns { result: r, expectsMoreUpdates: more } to execute
Returns(t, r, more) ==
    /\ result' = [result EXCEPT ![t] = r]
    /\ expectsMoreUpdates' = [expectsMoreUpdates EXCEPT ![t] = more]
    /\ pc' = [pc EXCEPT ![t] = "afterHandle"]

\* execute(requestContext, eventBus) up to its first await: the task record is
\* taken from the request or built, and published; a raise goes to the catch block
Execute(t) ==
    \E req \in RequestsFor(arrivals[t], t), o \in BusOutcomes(t) :
        /\ pc[t] = "idle"
        /\ arrivals' = [arrivals EXCEPT ![t] = "none"]
        /\ request' = [request EXCEPT ![t] = req]
        /\ \/ /\ Published(t, IF req.task = Undefined THEN NewTask(req) ELSE req.task, o)
              /\ pc' = [pc EXCEPT ![t] = "handleTask"]
              /\ error' = error
           \/ /\ Raised(t, o)
              /\ pc' = [pc EXCEPT ![t] = "catch"]
              /\ error' = [error EXCEPT ![t] = o.error]
        /\ UNCHANGED <<restVars, handlerError, i, result, expectsMoreUpdates, fin>>

\* the try/catch of handleTask around the handler it chose: the result r of the
\* handler is returned, and an exception that leaves the handler is caught
Settles(t, r) ==
    IF Escaped(r)
    THEN /\ Returns(t, ProcessingErrorResult(r.thrown), FALSE)
         /\ handlerError' = [handlerError EXCEPT ![t] = r.thrown]
    ELSE /\ Returns(t, r, FALSE)
         /\ handlerError' = handlerError

\* handleTask for the intents whose handler runs to its end without suspending
HandleTask(t) ==
    /\ pc[t] = "handleTask"
    /\ LET userText == UserText(request[t])
           intent == classify(userText)
       IN  /\ intent \notin {"Streaming", "PushNotification"}
           /\ \E rnd \in (IF intent = "Weather" THEN RandomDraws ELSE {<<0, 0, 0, 0>>}) :
                 Settles(t, CASE intent = "Greeting" -> handleGreeting(userText)
                              [] intent = "Calculation" -> handleCalculation(userText)
                              [] intent = "Weather" -> handleWeatherRequest(userText, rnd)
                              [] intent = "Translation" -> handleTranslationRequest(userText)
                              [] OTHER -> handleGeneralRequest(userText))
    /\ UNCHANGED <<restVars, arrivals, request, i, error, fin, bus, raises>>

\* handleTask enters handleStreamingRequest: the loop starts at i = 1
StartStreaming(t) ==
    /\ pc[t] = "handleTask"
    /\ classify(UserText(request[t])) = "Streaming"
    /\ pc' = [pc EXCEPT ![t] = "streamLoop"]
    /\ i' = [i EXCEPT ![t] = 1]
    /\ UNCHANGED <<restVars, handlerError, arrivals, request, result, expectsMoreUpdates, error, fin, bus, raises>>

\* one pass of the loop: publish the progress event, then wait for the timer; a
\* raise leaves the handler and is caught by handleTask
StreamTick(t) ==
    \E o \in BusOutcomes(t) :
        /\ pc[t] = "streamLoop"
        /\ i[t] <= totalMessages
        /\ \/ /\ Published(t, ProgressEvent(request[t], i[t]), o)
              /\ pc' = [pc EXCEPT ![t] = "streamSleep"]
              /\ UNCHANGED <<result, expectsMoreUpdates, handlerError>>
           \/ /\ Raised(t, o)
              /\ Returns(t, ProcessingErrorResult(o.error), FALSE)
              /\ handlerError' = [handlerError EXCEPT ![t] = o.error]
        /\ UNCHANGED <<restVars, arrivals, request, i, error, fin>>

\* the timer of setTimeout(resolve, delayMs) fires: i++
StreamTimer(t) ==
    /\ pc[t] = "streamSleep"
    /\ pc' = [pc EXCEPT ![t] = "streamLoop"]
    /\ i' = [i EXCEPT ![t] = @ + 1]
    /\ UNCHANGED <<restVars, handlerError, arrivals, request, result, expectsMoreUpdates, error, fin, bus, raises>>

\* after the loop: publish "Streaming finished!" and return the result
StreamFinish(t) ==
    \E o \in BusOutcomes(t) :
        /\ pc[t] = "streamLoop"
        /\ i[t] > totalMessages
        /\ \/ /\ Published(t, StreamingFinishedEvent(request[t]), o)
              /\ Returns(t, StreamingResult, FALSE)
              /\ handlerError' = handlerError
           \/ /\ Raised(t, o)
              /\ Returns(t, ProcessingErrorResult(o.error), FALSE)
              /\ handlerError' = [handlerError EXCEPT ![t] = o.error]
        /\ UNCHANGED <<restVars, arrivals, request, i, error, fin>>

\* handlePushNotificationRequest reported by handleTask with expectsMoreUpdates false
HandlePushExpectsNoMore(t) ==
    \E o \in BusOutcomes(t) :
        /\ pc[t] = "handleTask"
        /\ classify(UserText(request[t])) = "PushNotification"
        /\ \/ /\ Published(t, PushWorkingEvent(request[t]), o)
              /\ fin' = [fin EXCEPT ![t] = "waiting"]
              /\ Returns(t, PushResult, FALSE)
              /\ handlerError' = handlerError
           \/ /\ Raised(t, o)
              /\ fin' = fin
              /\ Returns(t, ProcessingErrorResult(o.error), FALSE)
              /\ handlerError' = [handlerError EXCEPT ![t] = o.error]
        /\ UNCHANGED <<restVars, arrivals, request, i, error>>

\* handlePushNotificationRequest: publish "working", launch the finalizer (which
\* runs up to its await of the 10 s timer) and return the intermediate result
HandlePush(t) ==
    \E o \in BusOutcomes(t) :
        /\ pc[t] = "handleTask"
        /\ classify(UserText(request[t])) = "PushNotification"
        /\ \/ /\ Published(t, PushWorkingEvent(request[t]), o)
              /\ fin' = [fin EXCEPT ![t] = "waiting"]
              /\ Returns(t, PushResult, TRUE)
              /\ handlerError' = handlerError
           \/ /\ Raised(t, o)
              /\ fin' = fin
              /\ Returns(t, ProcessingErrorResult(o.error), FALSE)
              /\ handlerError' = [handlerError EXCEPT ![t] = o.error]
        /\ UNCHANGED <<restVars, arrivals, request, i, error>>

\* if (expectsMoreUpdates) return;
ReturnEarly(t) ==
    /\ pc[t] = "afterHandle"
    /\ expectsMoreUpdates[t]
    /\ pc' = [pc EXCEPT ![t] = "returned"]
    /\ UNCHANGED <<restVars, handlerError, arrivals, request, i, result, expectsMoreUpdates, error, fin, bus, raises>>

\* eventBus.publish(finalUpdate)
PublishFinal(t) ==
    \E o \in BusOutcomes(t) :
        /\ pc[t] = "afterHandle"
        /\ ~expectsMoreUpdates[t]
        /\ \/ /\ Published(t, FinalUpdate(request[t], result[t]), o)
              /\ pc' = [pc EXCEPT ![t] = "finish"]
              /\ error' = error
           \/ /\ Raised(t, o)
              /\ pc' = [pc EXCEPT ![t] = "catch"]
              /\ error' = [error EXCEPT ![t] = o.error]
        /\ UNCHANGED <<restVars, handlerError, arrivals, request, i, result, expectsMoreUpdates, fin>>

\* eventBus.finished() at the end of the try block
Finish(t) ==
    \E o \in BusOutcomes(t) :
        /\ pc[t] = "finish"
        /\ \/ /\ Published(t, FinishedMark, o)
              /\ pc' = [pc EXCEPT ![t] = "returned"]
              /\ error' = error
           \/ /\ Raised(t, o)
              /\ pc' = [pc EXCEPT ![t] = "catch"]
              /\ error' = [error EXCEPT ![t] = o.error]
        /\ UNCHANGED <<restVars, handlerError, arrivals, request, i, result, expectsMoreUpdates, fin>>

\* the catch block: eventBus.publish(errorUpdate); a raise here rejects execute
CatchPublish(t) ==
    \E o \in BusOutcomes(t) :
        /\ pc[t] = "catch"
        /\ \/ /\ Published(t, ErrorUpdate(request[t], error[t]), o)
              /\ pc' = [pc EXCEPT ![t] = "catchFinish"]
           \/ /\ Raised(t, o)
              /\ pc' = [pc EXCEPT ![t] = "rejected"]
        /\ UNCHANGED <<restVars, handlerError, arrivals, request, i, result, expectsMoreUpdates, error, fin>>

\* the catch block: eventBus.finished()
CatchFinish(t) ==
    \E o \in BusOutcomes(t) :
        /\ pc[t] = "catchFinish"
        /\ \/ /\ Published(t, FinishedMark, o)
              /\ pc' = [pc EXCEPT ![t] = "returned"]
           \/ /\ Raised(t, o)
              /\ pc' = [pc EXCEPT ![t] = "rejected"]
        /\ UNCHANGED <<restVars, handlerError, arrivals, request, i, result, expectsMoreUpdates, error, fin>>

\* the 10 s timer of simulateWaitForPushConfig fires; timers fire only once the
\* continuations that are ready have run, so execute has returned by then
PushTimer(t) ==
    /\ fin[t] = "waiting"
    /\ pc[t] = "returned"
    /\ fin' = [fin EXCEPT ![t] = "ready"]
    /\ UNCHANGED <<restVars, handlerError, arrivals, request, pc, i, result, expectsMoreUpdates, error, bus, raises>>

\* finalizePushNotificationTask after its await: publish the completed event; the
\* finalizer has no catch, a raise rejects its promise
FinalizerPublish(t) ==
    \E o \in BusOutcomes(t) :
        /\ fin[t] = "ready"
        /\ \/ /\ Published(t, PushCompletedEvent(request[t].taskId, request[t].contextId), o)
              /\ fin' = [fin EXCEPT ![t] = "finish"]
           \/ /\ Raised(t, o)
              /\ fin' = [fin EXCEPT ![t] = "rejected"]
        /\ UNCHANGED <<restVars, handlerError, arrivals, request, pc, i, result, expectsMoreUpdates, error>>

\* finalizePushNotificationTask: eventBus.finished()
FinalizerFinish(t) ==
    \E o \in BusOutcomes(t) :
        /\ fin[t] = "finish"
        /\ \/ /\ Published(t, FinishedMark, o)
              /\ fin' = [fin EXCEPT ![t] = "done"]
           \/ /\ Raised(t, o)
              /\ fin' = [fin EXCEPT ![t] = "rejected"]
        /\ UNCHANGED <<restVars, handlerError, arrivals, request, pc, i, result, expectsMoreUpdates, error>>

\* how many calls of cancelTask one task may get
MaxCancels == 1

\* a cancelTask that aborts what the task is doing
CancelTaskAborts(t) ==
    /\ pc[t] # "idle"
    /\ cancels[t] < MaxCancels
    /\ cancels' = [cancels EXCEPT ![t] = @ + 1]
    /\ pc' = [pc EXCEPT ![t] = IF @ \in {"streamLoop", "streamSleep"} THEN "returned" ELSE @]
    /\ fin' = [fin EXCEPT ![t] = IF @ \in {"waiting", "ready"} THEN "done" ELSE @]
    /\ UNCHANGED <<arrivals, request, i, result, expectsMoreUpdates, handlerError, error,
                   bus, raises, handled, clientVars>>

\* cancelTask(taskId), which the server calls for a task it executes: logs the call
\* and does nothing else
CancelTask(t) ==
    /\ pc[t] # "idle"
    /\ cancels[t] < MaxCancels
    /\ cancels' = [cancels EXCEPT ![t] = @ + 1]
    /\ UNCHANGED <<executorVars, handled, clientVars>>

Next ==
    \E t \in TaskIds :
        \/ Execute(t)
        \/ HandleTask(t)
        \/ StartStreaming(t)
        \/ StreamTick(t)
        \/ StreamTimer(t)
        \/ StreamFinish(t)
        \/ HandlePush(t)
        \/ ReturnEarly(t)
        \/ PublishFinal(t)
        \/ Finish(t)
        \/ CatchPublish(t)
        \/ CatchFinish(t)
        \/ PushTimer(t)
        \/ FinalizerPublish(t)
        \/ FinalizerFinish(t)
        \/ CancelTask(t)

Spec == Init /\ [][Next]_vars

\* both tasks arrive and their steps interleave; the event bus of each may raise once
InitTwoTasks ==
    /\ InitExecutor([t \in TaskIds |-> IF t = "t1" THEN "streaming" ELSE "interleaved"],
                    MaxRaises - 1)
    /\ handled = NoCall
    /\ InitClient

SpecTwoTasks == InitTwoTasks /\ [][Next]_vars

(***************************************************************************)
(* The handlers called directly, one call in a run, on the texts of the    *)
(* requests and on further texts that reach their branches.                *)
(***************************************************************************)
CalculationTexts ==
    {"Calculate 15 * 7", "What is (25 + 15) * 2 / 4?", "compute 7 / 2",
     "Solve 1.5 + 2.25", "MATH 10 - 3 * 2", "calculate 2 * (3 + 4) - 1",
     "Calculate -5 + 2", "Calculate 10 * 3", "Calculate 2+2", "solve 1 / 0",
     "What is 2 plus 2", "Calculate (2 + 3"}

WeatherTexts ==
    {"Weather in Tokyo", "weather Paris", "WEATHER IN Berlin",
     "What is the weather in New York", "weather   in   Rome  ", "What is the weather",
     "weather in ", "the weather"}

TranslationTexts ==
    {"Translate \"thank you\" to German", "TRANSLATE \"Hello\" TO SPANISH",
     "Translate \"Good Morning\" to french", "translate 'hello' to Klingon",
     "Please translate \"how are you\" to French now",
     "Translate \"name\" to constructor", "Translate \"constructor\" to Spanish",
     "Translate \"length\" to constructor", "Translate \"hello\" to __proto__",
     "Translate \"constructor\" to __proto__", "Translate hello to Spanish",
     "Translate \"hello\" Spanish"}

HandlerTexts == Texts \cup CalculationTexts \cup WeatherTexts \cup TranslationTexts

\* handler(userText) returned result, or threw
Called(handler, userText, rnd, r) ==
    /\ handled = NoCall
    /\ handled' = [handler |-> handler, userText |-> userText, rnd |-> rnd, result |-> r]
    /\ UNCHANGED <<executorVars, cancels, clientVars>>

CallHandleGreeting ==
    \E userText \in HandlerTexts :
        Called("handleGreeting", userText, << >>, handleGreeting(userText))

CallHandleCalculation ==
    \E userText \in HandlerTexts :
        Called("handleCalculation", userText, << >>, handleCalculation(userText))

CallHandleWeatherRequest ==
    \E userText \in HandlerTexts, rnd \in RandomDraws :
        Called("handleWeatherRequest", userText, rnd, handleWeatherRequest(userText, rnd))

CallHandleTranslationRequest ==
    \E userText \in HandlerTexts :
        Called("handleTranslationRequest", userText, << >>, handleTranslationRequest(userText))

CallHandleGeneralRequest ==
    \E userText \in HandlerTexts :
        Called("handleGeneralRequest", userText, << >>, handleGeneralRequest(userText))

InitHandlers ==
    /\ InitExecutor([t \in TaskIds |-> "none"], 0)
    /\ handled = NoCall
    /\ InitClient

NextHandlers ==
    \/ CallHandleGreeting
    \/ CallHandleCalculation
    \/ CallHandleWeatherRequest
    \/ CallHandleTranslationRequest
    \/ CallHandleGeneralRequest

SpecHandlers == InitHandlers /\ [][NextHandlers]_vars

(***************************************************************************)
(* The transport client (class TestAgentClient of client.ts).  An          *)
(* operation builds its payload and headers, hands them to fetch, awaits   *)
(* the response and returns; its three steps are one action, since no      *)
(* operation reads anything that another writes.                           *)
(***************************************************************************)
baseUrl == "http://localhost:41243/a2a"

\* an optional bearerToken argument: left out, or a string
NoToken == Undefined

Token(s) == [value |-> s]

\* the tokens of the calls: none, the empty string, a token, the string "undefined"
BearerTokens == {NoToken, Token(""), Token("eyJhbGciOi.access.token"), Token("undefined")}

ClientMessages == {"Hello", "Start streaming"}

\* the values uuidv4() returns
MessageIds == {"uuid-1"}

ClientTaskIds == {"task-1"}

JsBoolean(b) == [type |-> "boolean", bool |-> b]

\* if (bearerToken): the argument is given and is not the empty string
TokenTruthy(bearerToken) == bearerToken # NoToken /\ bearerToken.value # ""

\* the headers of sendMessage, sendStreamingMessage and setPushNotificationConfig
Headers(bearerToken) ==
    IF TokenTruthy(bearerToken)
    THEN ("Content-Type" :> "application/json")
            @@ ("Authorization" :> ("Bearer " \o bearerToken.value))
    ELSE ("Content-Type" :> "application/json")

\* JSON.stringify(payload): the text of the payload, kept as the value it denotes
Stringify(payload) == [json |-> payload]

\* fetch(this.config.baseUrl, { method: "POST", headers, body })
Post(headers, payload) ==
    [url |-> baseUrl, method |-> "POST", headers |-> headers, body |-> Stringify(payload)]

UserMessagePart(messageId, message) ==
    [messageId |-> messageId, role |-> "user", parts |-> << TextPart(message) >>]

GetTaskPayload(taskId) ==
    [jsonrpc |-> "2.0", method |-> "tasks/get", params |-> [id |-> taskId]]

SendMessagePayload(messageId, message) ==
    [jsonrpc |-> "2.0", method |-> "message/send",
     params |-> [message |-> UserMessagePart(messageId, message),
                 configuration |-> [blocking |-> FALSE]]]

\* pushNotification is added to params only when it is given
SendStreamingMessagePayload(messageId, message, pushNotification) ==
    [jsonrpc |-> "2.0", method |-> "message/stream",
     params |-> IF pushNotification # Undefined
                THEN [message |-> UserMessagePart(messageId, message),
                      pushNotification |-> pushNotification]
                ELSE [message |-> UserMessagePart(messageId, message)]]

SetPushNotificationConfigPayload(taskId, pushNotificationConfig) ==
    [jsonrpc |-> "2.0", method |-> "tasks/pushNotificationConfig/set",
     params |-> [taskId |-> taskId, pushNotificationConfig |-> pushNotificationConfig],
     id |-> 1]

\* the pushNotification object of testPushNotification
PushNotificationConfig ==
    [url |-> "http://localhost:4000/webhook", token |-> "test-token-abc",
     authentication |-> [credentials |-> "test-token-abc", schemes |-> << "bearer" >>]]

(***************************************************************************)
(* What fetch answers: a response that is not ok, a response whose body is *)
(* JSON (a JSON-RPC result, a JSON-RPC error, an object with a null error, *)
(* a value that is no object) or is no JSON at all, or a rejection.        *)
(***************************************************************************)
NotOk(status, statusText) ==
    [kind |-> "response", ok |-> FALSE, status |-> status, statusText |-> statusText]

OkJson(data) ==
    [kind |-> "response", ok |-> TRUE, status |-> 200, statusText |-> "OK",
     json |-> [parses |-> TRUE, data |-> data]]

OkNotJson ==
    [kind |-> "response", ok |-> TRUE, status |-> 200, statusText |-> "OK",
     json |-> [parses |-> FALSE]]

FetchRejects == [kind |-> "rejection", message |-> "connect ECONNREFUSED"]

ResultData ==
    [type |-> "object", jsonrpc |-> "2.0", id |-> 1,
     result |-> [kind |-> "task", id |-> "task-1"]]

ErrorData ==
    [type |-> "object", jsonrpc |-> "2.0", id |-> 1,
     error |-> [type |-> "object", code |-> -32001, message |-> "Payment required"]]

NullErrorData ==
    [type |-> "object", jsonrpc |-> "2.0", id |-> 1, error |-> JsNull,
     result |-> [kind |-> "task", id |-> "task-1"]]

JsonResponses ==
    {NotOk(402, "Payment Required"), NotOk(500, "Internal Server Error"),
     OkJson(ResultData), OkJson(ErrorData), OkJson(NullErrorData), OkJson(JsString("pong")),
     OkNotJson, FetchRejects}

\* data && typeof data === "object" && "error" in data && data.error
HasError(data) ==
    /\ data.type = "object"
    /\ "error" \in DOMAIN data
    /\ Truthy(data.error)

\* data && typeof data === "object" && "result" in data
HasResult(data) == data.type = "object" /\ "result" \in DOMAIN data

ConsoleError(text) == [level |-> "error", text |-> text]

ConsoleLog(text) == [level |-> "log", text |-> text]

\* what a call of an operation comes to: the value its promise resolves to, or a
\* rejection, and the lines it writes
Resolves(value, lines) == [rejected |-> FALSE, value |-> value, lines |-> lines]

Rejects(lines) == [rejected |-> TRUE, lines |-> lines]

HttpErrorLine(response) ==
    ConsoleError("HTTP Error " \o NatToString(response.status) \o ": " \o response.statusText)

\* getTask has no try/catch: a rejection of fetch or of response.json() is its own
getTask(response) ==
    IF response.kind = "rejection" THEN Rejects(<< >>)
    ELSE IF ~response.ok THEN Resolves(JsNull, << HttpErrorLine(response) >>)
    ELSE IF ~response.json.parses THEN Rejects(<< >>)
    ELSE Resolves(response.json.data, << >>)

sendMessage(response) ==
    IF response.kind = "rejection"
    THEN Resolves(JsNull, << ConsoleError("Request failed: " \o response.message) >>)
    ELSE IF ~response.ok THEN Resolves(JsNull, << HttpErrorLine(response) >>)
    ELSE IF ~response.json.parses
    THEN Resolves(JsNull, << ConsoleError("Request failed: invalid json") >>)
    ELSE LET data == response.json.data
         IN  IF HasError(data) THEN Resolves(data, << ConsoleError("Error from agent:") >>)
             ELSE IF HasResult(data) THEN Resolves(data, << ConsoleLog("Agent response:") >>)
             ELSE Resolves(data, << >>)

setPushNotificationConfig(response) ==
    IF response.kind = "rejection"
    THEN Resolves(JsBoolean(FALSE), << ConsoleError("Request failed (pushNotificationConfig/set): " \o response.message) >>)
    ELSE IF ~response.ok THEN Resolves(JsBoolean(FALSE), << HttpErrorLine(response) >>)
    ELSE IF ~response.json.parses
    THEN Resolves(JsBoolean(FALSE), << ConsoleError("Request failed (pushNotificationConfig/set): invalid json") >>)
    ELSE IF HasError(response.json.data)
    THEN Resolves(JsBoolean(FALSE), << ConsoleError("Error from agent (pushNotificationConfig/set):") >>)
    ELSE Resolves(JsBoolean(TRUE), << >>)

(***************************************************************************)
(* Server-sent events.  A frame is a block of lines ended by a blank line; *)
(* the payload of its "data:" line is JSON.  The payloads below are the    *)
(* texts a stream carries here; JSONparse knows them and throws a          *)
(* SyntaxError on every other text.                                        *)
(***************************************************************************)
StatusJson(id, final) ==
    "{\"id\":" \o id \o ",\"result\":{\"status\":{\"final\":" \o final \o "}}}"

ErrorJson == "{\"id\":9,\"error\":{\"code\":-32603}}"

TruncatedJson == "{\"id\":8,\"result\":"

\* two characters outside ASCII, written here by their code points: the bullet of the
\* agent's greeting and capability texts, and the replacement character a decoder
\* puts where bytes are no character
Bullet == "<U+2022>"

ReplacementCharacter == "<U+FFFD>"

\* a status update whose message text holds the character mark
GreetingJson(mark) ==
    "{\"id\":6,\"result\":{\"status\":{\"final\":false,\"message\":\"" \o mark
        \o " Greetings\"}}}"

\* what decoding makes of the three bytes of a bullet, whole or cut in chunks
BulletDecodings ==
    {Bullet, ReplacementCharacter \o ReplacementCharacter,
     ReplacementCharacter \o ReplacementCharacter \o ReplacementCharacter}

\* the strings pieces[lo], ..., pieces[hi] put end to end
RECURSIVE JoinStrings(_, _, _)
JoinStrings(pieces, lo, hi) ==
    IF lo > hi THEN ""
    ELSE IF lo = hi THEN pieces[lo]
    ELSE LET mid == (lo + hi) \div 2
         IN  JoinStrings(pieces, lo, mid) \o JoinStrings(pieces, mid + 1, hi)

\* the sequences pieces[lo], ..., pieces[hi] put end to end
RECURSIVE JoinBytes(_, _, _)
JoinBytes(pieces, lo, hi) ==
    IF lo > hi THEN << >>
    ELSE IF lo = hi THEN pieces[lo]
    ELSE LET mid == (lo + hi) \div 2
         IN  JoinBytes(pieces, lo, mid) \o JoinBytes(pieces, mid + 1, hi)

\* the bytes of a text in UTF-8: an ASCII character is one byte, written as the
\* character; the bullet is the bytes E2 80 A2
Utf8Bytes(text) ==
    LET InsideBullet(p) ==
            \E q \in 1..(Len(Bullet) - 1) : p - q >= 1 /\ StartsAt(text, Bullet, p - q)
        pieces == [p \in 1..Len(text) |->
                      IF StartsAt(text, Bullet, p) THEN << "E2", "80", "A2" >>
                      ELSE IF InsideBullet(p) THEN << >>
                      ELSE << CharAt(text, p) >>]
    IN  JoinBytes(pieces, 1, Len(text))

\* chunk.toString("utf8"): the bytes of one chunk decoded on their own; bytes that
\* are no whole character give the replacement character: one for the start of a
\* character cut by the end of the chunk, one for every byte that continues nothing
toStringUtf8(chunk) ==
    LET At(p) == IF 1 <= p /\ p <= Len(chunk) THEN chunk[p] ELSE ""
        pieces == [p \in 1..Len(chunk) |->
                      IF Len(chunk[p]) = 1 THEN chunk[p]
                      ELSE IF chunk[p] = "E2"
                      THEN IF At(p + 1) = "80" /\ At(p + 2) = "A2" THEN Bullet
                           ELSE ReplacementCharacter
                      ELSE IF chunk[p] = "80"
                      THEN IF At(p - 1) = "E2" THEN "" ELSE ReplacementCharacter
                      ELSE IF At(p - 2) = "E2" /\ At(p - 1) = "80" THEN ""
                      ELSE ReplacementCharacter]
    IN  JoinStrings(pieces, 1, Len(chunk))

\* JSON.parse(text): the value, told here by what the consumers read of it, which is
\* data?.result?.status?.final
JSONparse(text) ==
    CASE text \in {StatusJson(id, "false") : id \in {"1", "2"}} ->
            [throws |-> FALSE, value |-> [json |-> text, final |-> JsBoolean(FALSE)]]
      [] text \in {StatusJson(id, "true") : id \in {"3", "4"}} ->
            [throws |-> FALSE, value |-> [json |-> text, final |-> JsBoolean(TRUE)]]
      [] text = StatusJson("5", "\"true\"") ->
            [throws |-> FALSE, value |-> [json |-> text, final |-> JsString("true")]]
      [] text \in {GreetingJson(mark) : mark \in BulletDecodings} ->
            [throws |-> FALSE, value |-> [json |-> text, final |-> JsBoolean(FALSE)]]
      [] text = ErrorJson ->
            [throws |-> FALSE, value |-> [json |-> text, final |-> JsUndefined]]
      [] text = "null" ->
            [throws |-> FALSE, value |-> [json |-> text, final |-> JsUndefined]]
      [] OTHER -> [throws |-> TRUE]

\* data?.result?.status?.final is true and never stops the consumer
IsFinalNever(data) == FALSE

\* data?.result?.status?.final === true
IsFinalTrue(data) == data.final = JsBoolean(TRUE)

\* the frames of a stream, each with the text it has on the wire: "data" frames
\* (with or without a blank after the colon, with or without other lines around the
\* data line), and a comment frame that has no data line
DataFrame(json) == [json |-> json, text |-> "data: " \o json \o "\n\n"]

EventFrame(json) == [json |-> json, text |-> "event: message\ndata:" \o json \o "\nid: 7\n\n"]

CommentFrame == [json |-> "", text |-> ": keep-alive\n\n"]

P1 == DataFrame(StatusJson("1", "false"))

P2 == EventFrame(StatusJson("2", "false"))

F3 == DataFrame(StatusJson("3", "true"))

F4 == EventFrame(StatusJson("4", "true"))

\* the streams a server sends: sequences of frames
StreamFrames ==
    {<< P1, P2, F3 >>,
     << P1, F3, P2, F4 >>,
     << F4, F3 >>,
     << CommentFrame, DataFrame(TruncatedJson), DataFrame(StatusJson("5", "\"true\"")),
        DataFrame(ErrorJson), DataFrame("null"), F3, P1 >>,
     << P1, P2 >>,
     << DataFrame(GreetingJson(Bullet)), F3 >>,
     << >>}

\* the bytes of a stream
RECURSIVE WireText(_)
WireText(frames) ==
    IF frames = << >> THEN "" ELSE Head(frames).text \o WireText(Tail(frames))

\* a response whose body is a stream; frames names the frames the body is made of
OkStream(frames) ==
    [kind |-> "response", ok |-> TRUE, status |-> 200, statusText |-> "OK",
     body |-> WireText(frames), frames |-> frames]

\* an ok response whose body is one JSON text and no stream of frames: how a server
\* answers message/stream with a JSON-RPC error
OkJsonBody(text) ==
    [kind |-> "response", ok |-> TRUE, status |-> 200, statusText |-> "OK",
     body |-> text, frames |-> << >>]

\* a stream the server closes inside a frame: the frames that are whole, then the
\* lines of a frame without the blank line that ends it
OkStreamCut(frames, json) ==
    [kind |-> "response", ok |-> TRUE, status |-> 200, statusText |-> "OK",
     body |-> WireText(frames) \o "data: " \o json \o "\n", frames |-> frames]

StreamResponses ==
    {NotOk(402, "Payment Required"), FetchRejects, OkJsonBody(ErrorJson),
     OkStreamCut(<< P1 >>, StatusJson("3", "true"))}
        \cup {OkStream(f) : f \in StreamFrames}

\* sendStreamingMessage up to the point where its listeners are attached; the fetch
\* is outside any try/catch
sendStreamingMessage(response) ==
    IF response.kind = "rejection" THEN Rejects(<< >>)
    ELSE IF ~response.ok
    THEN Resolves(JsUndefined,
                  << ConsoleError("Failed to initiate streaming: " \o response.statusText) >>)
    ELSE Resolves(JsUndefined,
                  << ConsoleLog("Streaming request sent. Processing SSE events...") >>)

\* s.indexOf(k), counted from 1; 0 when k is not in s
RECURSIVE IndexFrom(_, _, _)
IndexFrom(s, k, p) ==
    IF p + Len(k) - 1 > Len(s) THEN 0
    ELSE IF StartsAt(s, k, p) THEN p
    ELSE IndexFrom(s, k, p + 1)

indexOf(s, k) == IndexFrom(s, k, 1)

\* rawEvent.split("\n").find((line) => line.startsWith("data:")), looked for from
\* index p, where a line starts
RECURSIVE FindDataLine(_, _)
FindDataLine(rawEvent, p) ==
    LET nl == IndexFrom(rawEvent, "\n", p)
        end == IF nl = 0 THEN Len(rawEvent) ELSE nl - 1
    IN  IF StartsAt(rawEvent, "data:", p)
        THEN [found |-> TRUE, line |-> SubSeq(rawEvent, p, end)]
        ELSE IF nl = 0 THEN [found |-> FALSE]
        ELSE FindDataLine(rawEvent, nl + 1)

StreamingEventLine(data) == ConsoleLog("[Streaming Event] " \o data.json)

FinalReceivedLine == ConsoleLog("[Streaming Event] Final event received. Closing stream.")

ParsingErrorLine == ConsoleError("[Streaming Event] Error parsing event:")

\* the while loop of the "data" listener on the buffer buf: what is left in the
\* buffer, the lines written (added to lines), and whether the loop ended at a frame
\* that is final
RECURSIVE DrainBuffer(_, _)
DrainBuffer(buf, lines) ==
    LET eventEnd == indexOf(buf, "\n\n")
        rawEvent == SubSeq(buf, 1, eventEnd - 1)
        rest == SubSeq(buf, eventEnd + 2, Len(buf))
        dataLine == FindDataLine(rawEvent, 1)
        parsed == JSONparse(trim(SubSeq(dataLine.line, 6, Len(dataLine.line))))
    IN  IF eventEnd = 0 THEN [buffer |-> buf, lines |-> lines, final |-> FALSE]
        ELSE IF ~dataLine.found THEN DrainBuffer(rest, lines)
        ELSE IF parsed.throws THEN DrainBuffer(rest, Append(lines, ParsingErrorLine))
        ELSE IF IsFinalTrue(parsed.value)
        THEN [buffer |-> rest,
              lines |-> lines \o << StreamingEventLine(parsed.value), FinalReceivedLine >>,
              final |-> TRUE]
        ELSE DrainBuffer(rest, Append(lines, StreamingEventLine(parsed.value)))

\* the sizes of the chunk that arrives next when n bytes are still to come
ChunkSizes(n) == {k \in {1, 2, 3, 5, 8, 13, 21, 34, 55, 89, n} : k >= 1 /\ k <= n}

(***************************************************************************)
(* The calls of the transport client.  calls counts them; fetches holds    *)
(* the requests the last call handed to fetch, returns what it came to and *)
(* console every line written so far.                                      *)
(***************************************************************************)
MaxCalls == 2

\* one call of an operation: its request goes out, its outcome is recorded and its
\* lines are written
Call(operation, arguments, fetched, response, outcome) ==
    /\ calls < MaxCalls
    /\ calls' = calls + 1
    /\ fetches' = << fetched >>
    /\ returns' = << [operation |-> operation, arguments |-> arguments,
                      response |-> response, outcome |-> outcome] >>
    /\ console' = console \o outcome.lines

GetTask ==
    \E taskId \in ClientTaskIds, response \in JsonResponses :
        /\ Call("getTask", [taskId |-> taskId],
                Post(("Content-Type" :> "application/json"), GetTaskPayload(taskId)),
                response, getTask(response))
        /\ UNCHANGED <<executorVars, cancels, handled, nodeStream, buffer, streamClosed,
                       awaited>>

SendMessage ==
    \E message \in ClientMessages, bearerToken \in BearerTokens, messageId \in MessageIds,
       response \in JsonResponses :
        /\ Call("sendMessage", [message |-> message, bearerToken |-> bearerToken,
                                messageId |-> messageId],
                Post(Headers(bearerToken), SendMessagePayload(messageId, message)),
                response, sendMessage(response))
        /\ UNCHANGED <<executorVars, cancels, handled, nodeStream, buffer, streamClosed,
                       awaited>>

\* the listeners are attached to the body of an ok response; its chunks arrive later
SendStreamingMessageWith(bearerTokens, pushNotifications) ==
    \E message \in ClientMessages, bearerToken \in bearerTokens, messageId \in MessageIds,
       pushNotification \in pushNotifications, response \in StreamResponses :
        /\ nodeStream = NoStream
        /\ awaited = NoStream
        /\ Call("sendStreamingMessage",
                [message |-> message, bearerToken |-> bearerToken,
                 messageId |-> messageId, pushNotification |-> pushNotification],
                Post(Headers(bearerToken),
                     SendStreamingMessagePayload(messageId, message, pushNotification)),
                response, sendStreamingMessage(response))
        /\ nodeStream' = IF response.kind = "response" /\ response.ok
                         THEN [state |-> "flowing", wire |-> Utf8Bytes(response.body), read |-> 0]
                         ELSE nodeStream
        /\ buffer' = ""
        /\ streamClosed' = FALSE
        /\ UNCHANGED <<executorVars, cancels, handled, awaited>>

SendStreamingMessage ==
    SendStreamingMessageWith(BearerTokens, {Undefined, PushNotificationConfig})

SetPushNotificationConfig ==
    \E taskId \in ClientTaskIds, bearerToken \in BearerTokens, response \in JsonResponses :
        /\ Call("setPushNotificationConfig",
                [taskId |-> taskId, pushNotificationConfig |-> PushNotificationConfig,
                 bearerToken |-> bearerToken],
                Post(Headers(bearerToken),
                     SetPushNotificationConfigPayload(taskId, PushNotificationConfig)),
                response, setPushNotificationConfig(response))
        /\ UNCHANGED <<executorVars, cancels, handled, nodeStream, buffer, streamClosed,
                       awaited>>

\* no task arrives at the executor; the client has made no call
InitTransport ==
    /\ InitExecutor([t \in TaskIds |-> "none"], 0)
    /\ handled = NoCall
    /\ InitClient

NextClient ==
    \/ GetTask
    \/ SendMessage
    \/ SendStreamingMessage
    \/ SetPushNotificationConfig

SpecClient == InitTransport /\ [][NextClient]_vars

(***************************************************************************)
(* The listeners of sendStreamingMessage.  The body arrives in chunks of   *)
(* any size; a destroyed stream emits no further "data", "end" or "error". *)
(***************************************************************************)
\* the stream is opened by the first call of the client, made as testStreamingSSE
\* makes it: with an access token and without a push notification
OpenStream ==
    calls = 0 /\ SendStreamingMessageWith({Token("eyJhbGciOi.access.token")}, {Undefined})

\* nodeStream.on("data", ...) with the next k bytes of the body
OnData ==
    /\ nodeStream.state = "flowing"
    /\ \E k \in ChunkSizes(Len(nodeStream.wire) - nodeStream.read) :
        LET chunk == SubSeq(nodeStream.wire, nodeStream.read + 1, nodeStream.read + k)
            drained == DrainBuffer(buffer \o toStringUtf8(chunk), << >>)
        IN  /\ buffer' = drained.buffer
            /\ console' = console \o drained.lines
            /\ streamClosed' = (streamClosed \/ drained.final)
            /\ nodeStream' = [nodeStream EXCEPT !.read = @ + k,
                                                !.state = IF drained.final THEN "destroyed"
                                                          ELSE @]
    /\ UNCHANGED <<executorVars, cancels, handled, calls, fetches, returns, awaited>>

\* nodeStream.on("end", ...): the server closed after its last byte
OnEnd ==
    /\ nodeStream.state = "flowing"
    /\ nodeStream.read = Len(nodeStream.wire)
    /\ nodeStream' = [nodeStream EXCEPT !.state = "ended"]
    /\ console' = IF ~streamClosed
                  THEN Append(console, ConsoleLog("SSE stream closed by server."))
                  ELSE console
    /\ UNCHANGED <<executorVars, cancels, handled, calls, fetches, returns, buffer, streamClosed,
                   awaited>>

\* nodeStream.on("error", ...): the connection breaks at any point of the body
OnError ==
    /\ nodeStream.state = "flowing"
    /\ nodeStream' = [nodeStream EXCEPT !.state = "errored"]
    /\ console' = Append(console, ConsoleError("SSE stream error:"))
    /\ UNCHANGED <<executorVars, cancels, handled, calls, fetches, returns, buffer, streamClosed,
                   awaited>>

(***************************************************************************)
(* The for-await loops of the payments client (testStreamingSSE,           *)
(* testSendMessageStream, testResubscribeTask).  The library hands the     *)
(* loop the events of the stream one by one; the loop is the same in the   *)
(* three tests but for the tag of its lines.                               *)
(***************************************************************************)
StreamTests ==
    [testStreamingSSE |-> [tag |-> "[Streaming Event]", name |-> "Streaming SSE"],
     testSendMessageStream |-> [tag |-> "[sendMessageStream Event]",
                                name |-> "sendMessageStream"],
     testResubscribeTask |-> [tag |-> "[resubscribeTask Event]", name |-> "resubscribeTask"]]

\* the events the library yields for a stream of frames: the payloads that parse
RECURSIVE EventsOf(_)
EventsOf(frames) ==
    IF frames = << >> THEN << >>
    ELSE LET parsed == JSONparse(Head(frames).json)
         IN  IF parsed.throws THEN EventsOf(Tail(frames))
             ELSE << parsed.value >> \o EventsOf(Tail(frames))

EventLine(test, event) == ConsoleLog(StreamTests[test].tag \o " " \o event.json)

FinalEventLine(test) == ConsoleLog(StreamTests[test].tag \o " Final event received.")

CompletedLine(test) == ConsoleLog(StreamTests[test].name \o " test completed")

TestErrorLine(test) == ConsoleError(StreamTests[test].name \o " error:")

\* await client.sendAgentMessageStream(params) or client.resubscribeAgentTask(...)
TestStream ==
    \E test \in DOMAIN StreamTests, frames \in StreamFrames, opens \in BOOLEAN :
        /\ awaited = NoStream
        /\ nodeStream = NoStream
        /\ calls = 0
        /\ awaited' = IF opens
                      THEN [state |-> "iterating", test |-> test, all |-> EventsOf(frames),
                            next |-> 1]
                      ELSE [state |-> "failed", test |-> test, all |-> EventsOf(frames),
                            next |-> 1]
        /\ console' = IF opens THEN console ELSE Append(console, TestErrorLine(test))
        /\ UNCHANGED <<executorVars, cancels, handled, calls, fetches, returns, nodeStream, buffer,
                       streamClosed>>

\* one turn of the loop body: the event is written, and a final event breaks the loop
ForAwaitNext ==
    /\ awaited.state = "iterating"
    /\ awaited.next <= Len(awaited.all)
    /\ LET event == awaited.all[awaited.next]
       IN  IF IsFinalTrue(event)
           THEN /\ console' = console \o << EventLine(awaited.test, event),
                                            FinalEventLine(awaited.test),
                                            CompletedLine(awaited.test) >>
                /\ awaited' = [awaited EXCEPT !.next = @ + 1, !.state = "done"]
           ELSE /\ console' = Append(console, EventLine(awaited.test, event))
                /\ awaited' = [awaited EXCEPT !.next = @ + 1]
    /\ UNCHANGED <<executorVars, cancels, handled, calls, fetches, returns, nodeStream, buffer,
                   streamClosed>>

\* the stream is exhausted: the loop ends
ForAwaitEnd ==
    /\ awaited.state = "iterating"
    /\ awaited.next > Len(awaited.all)
    /\ awaited' = [awaited EXCEPT !.state = "done"]
    /\ console' = Append(console, CompletedLine(awaited.test))
    /\ UNCHANGED <<executorVars, cancels, handled, calls, fetches, returns, nodeStream, buffer,
                   streamClosed>>

\* the iterator rejects (the connection breaks): the catch block of the test
ForAwaitThrows ==
    /\ awaited.state = "iterating"
    /\ awaited' = [awaited EXCEPT !.state = "failed"]
    /\ console' = Append(console, TestErrorLine(awaited.test))
    /\ UNCHANGED <<executorVars, cancels, handled, calls, fetches, returns, nodeStream, buffer,
                   streamClosed>>

NextStream ==
    \/ OpenStream
    \/ OnData
    \/ OnEnd
    \/ OnError
    \/ TestStream
    \/ ForAwaitNext
    \/ ForAwaitEnd
    \/ ForAwaitThrows

SpecStream == InitTransport /\ [][NextStream]_vars

(***************************************************************************)
(* What a caller observes of one task                                      *)
(***************************************************************************)
IsEvent(e) == e.kind # "finished"

\* the events published for task t, in order
Events(t) == SelectSeq(bus[t], IsEvent)

IsStatusUpdate(e) == e.kind = "status-update"

IsFinal(e) == IsStatusUpdate(e) /\ e.final

IsProgress(e) == IsStatusUpdate(e) /\ ~e.final

FinalIndexes(t) == {k \in 1..Len(Events(t)) : IsFinal(Events(t)[k])}

ProgressIndexes(t) == {k \in 1..Len(Events(t)) : IsProgress(Events(t)[k])}

Invoked(t) == request[t] # NoRequest

\* nothing of task t can still run: execute has settled and no finalizer is pending
Quiescent(t) ==
    /\ pc[t] \in {"returned", "rejected"}
    /\ fin[t] \in {"none", "done", "rejected"}

\* execute published its final update and did not enter its catch block
FinalUpdatePublished(t) == pc[t] \in {"finish", "returned"} /\ ~expectsMoreUpdates[t]
                           /\ error[t] = NoError

Intent(t) == classify(UserText(request[t]))

TypeOK ==
    /\ pc \in [TaskIds -> {"idle", "handleTask", "streamLoop", "streamSleep", "afterHandle",
                           "finish", "catch", "catchFinish", "returned", "rejected"}]
    /\ fin \in [TaskIds -> {"none", "waiting", "ready", "finish", "done", "rejected"}]
    /\ i \in [TaskIds -> 0..(totalMessages + 1)]
    /\ raises \in [TaskIds -> 0..MaxRaises]
    /\ expectsMoreUpdates \in [TaskIds -> BOOLEAN]

(***************************************************************************)
(* Claims                                                                  *)
(***************************************************************************)

\* C1: for every task at most one status-update event with final=true is ever
\* published and no event of the task is published after it, whether or not a
\* handler or an event-bus call raises (the safety half of "exactly one final
\* event, and it is the last event of the task").
C1_OneFinalAndLast ==
    \A t \in TaskIds :
        /\ Cardinality(FinalIndexes(t)) <= 1
        /\ \A k \in FinalIndexes(t) : k = Len(Events(t))

\* C2: every task execute was invoked for reaches a terminal state visible to the
\* caller whichever step throws: once nothing of the task can run any more, a
\* status-update event with final=true has been published for it.
C2_TerminalStateReached ==
    \A t \in TaskIds :
        (Invoked(t) /\ Quiescent(t)) => FinalIndexes(t) # {}

\* C3: within one task the events are published in the order submitted ->
\* progress* -> final: a task record is the first event, every final=false status
\* update comes after the task record, and no final=false status update comes after
\* a final=true one.
C3_PublicationOrder ==
    \A t \in TaskIds :
        LET ev == Events(t)
        IN  /\ \A k \in 1..Len(ev) : ev[k].kind = "task" => k = 1
            /\ \A k \in ProgressIndexes(t) : k > 1 /\ ev[1].kind = "task"
            /\ \A k \in FinalIndexes(t) : \A j \in ProgressIndexes(t) : j < k

\* a streaming task that went through its whole loop, then the final update
C3_Witness ==
    \E t \in TaskIds :
        /\ Cardinality(ProgressIndexes(t)) = totalMessages + 1
        /\ FinalIndexes(t) = {Len(Events(t))}
        /\ Events(t)[1].kind = "task"

C5_PushNotification ==
    \A t \in TaskIds :
        (Invoked(t) /\ Intent(t) = "PushNotification") =>
            LET ev == Events(t)
                handlerReturned == result[t] # NoResult /\ handlerError[t] = NoError
            IN  /\ handlerReturned =>
                      /\ result[t].state = "working"
                      /\ expectsMoreUpdates[t]
                      /\ pc[t] \in {"afterHandle", "returned"}
                      /\ fin[t] # "none"
                /\ (handlerReturned /\ fin[t] \in {"waiting", "ready"}) =>
                      /\ FinalIndexes(t) = {}
                      /\ \A k \in 1..Len(bus[t]) : bus[t][k] # FinishedMark
                /\ fin[t] \in {"ready", "finish", "done", "rejected"} => pc[t] = "returned"
                /\ fin[t] \in {"finish", "done"} =>
                      /\ FinalIndexes(t) = {Len(ev)}
                      /\ ev[Len(ev)].status.state = "completed"
                      /\ ev[Len(ev)].metadata.creditsUsed = 5
                /\ (pc[t] # "handleTask" /\ raises[t] = 0) =>
                      handlerReturned /\ fin[t] # "rejected"

\* the finalizer ran to its end
C5_Witness ==
    \E t \in TaskIds :
        /\ Invoked(t) /\ Intent(t) = "PushNotification"
        /\ fin[t] = "done" /\ pc[t] = "returned"
        /\ Cardinality(FinalIndexes(t)) = 1

\* C6: every published final=true event whose metadata is present carries a
\* creditsUsed field that is an integer >= 1: the normal final event, the
\* push-notification final event and the error-boundary final event alike.
C6_FinalCarriesCredits ==
    \A t \in TaskIds :
        \A k \in FinalIndexes(t) :
            LET md == Events(t)[k].metadata
            IN  md # Undefined =>
                    /\ "creditsUsed" \in DOMAIN md
                    /\ md.creditsUsed \in Nat
                    /\ md.creditsUsed >= 1

\* the credit cost the README's table of capabilities and section 4.2 of the
\* specification declare for each intent
DeclaredCost(intent) ==
    CASE intent = "Greeting" -> 1
      [] intent = "Calculation" -> 2
      [] intent = "Weather" -> 3
      [] intent = "Translation" -> 4
      [] intent = "Streaming" -> 5
      [] intent = "PushNotification" -> 5
      [] intent = "General" -> 1

\* C7: every result with state "completed" charges exactly the declared credit
\* cost of the intent that produced it: the results the handlers return, and the
\* completion event of a push-notification task.
C7_CompletedChargesDeclaredCost ==
    \A t \in TaskIds :
        Invoked(t) =>
            /\ (result[t] # NoResult /\ result[t].state = "completed") =>
                    result[t].metadata.creditsUsed = DeclaredCost(Intent(t))
            /\ \A k \in FinalIndexes(t) :
                    Events(t)[k].status.state = "completed" =>
                        Events(t)[k].metadata.creditsUsed = DeclaredCost(Intent(t))

\* completed results of two different costs were seen: a translation and a
\* push-notification completion
C7_Witness ==
    \E t \in TaskIds :
        /\ Invoked(t)
        /\ \/ /\ Intent(t) = "Translation"
              /\ result[t] # NoResult /\ result[t].state = "completed"
              /\ FinalIndexes(t) # {}
           \/ /\ Intent(t) = "PushNotification" /\ fin[t] = "done"

\* the requests the README and the start-up banner give as examples, with the
\* operation and the credits they are labelled with
Examples ==
    {[text |-> "Hello there!", operation |-> "greeting", credits |-> 1],
     [text |-> "Calculate 15 * 7", operation |-> "calculation", credits |-> 2],
     [text |-> "Weather in London", operation |-> "weather", credits |-> 3],
     [text |-> "Translate \"hello\" to Spanish", operation |-> "translation", credits |-> 4],
     [text |-> "Start streaming", operation |-> "streaming", credits |-> 5]}

\* C8: each example request of the README is served by the operation it is labelled
\* with and charged that operation's credits; the translation example completes
\* with an output that contains "hola".
C8_ExamplesServedAsLabelled ==
    \A t \in TaskIds : \A x \in Examples :
        (/\ Invoked(t)
         /\ UserText(request[t]) = x.text
         /\ result[t] # NoResult
         /\ handlerError[t] = NoError) =>
            /\ result[t].metadata.operationType = x.operation
            /\ result[t].metadata.creditsUsed = x.credits
            /\ x.operation = "translation" =>
                  /\ result[t].state = "completed"
                  /\ includes(result[t].parts[1].text, "hola")

\* the operation a handled task was served by
ServedAs(t) ==
    IF fin[t] # "none" THEN "PushNotification"
    ELSE IF handlerError[t] # NoError
         THEN (IF handlerError[t] \notin Thrown THEN "Translation"
               ELSE IF i[t] > 0 THEN "Streaming" ELSE "PushNotification")
    ELSE CASE result[t].metadata.operationType = "greeting" -> "Greeting"
           [] result[t].metadata.operationType
                 \in {"calculation", "calculation_error"} -> "Calculation"
           [] result[t].metadata.operationType \in {"weather", "weather_error"} -> "Weather"
           [] result[t].metadata.operationType
                 \in {"translation", "translation_error"} -> "Translation"
           [] result[t].metadata.operationType = "streaming" -> "Streaming"
           [] result[t].metadata.operationType = "general" -> "General"

\* whether text holds word k, letter case apart
Holds(text, k) == includes(toLowerCase(text), k)

\* the rules of section 4.1, in their order
Rule(n, text) ==
    CASE n = 1 -> \E k \in {"hello", "hi", "hey", "good morning", "good afternoon",
                            "good evening"} : Holds(text, k)
      [] n = 2 -> \/ \E k \in {"calculate", "math", "compute", "solve", "what is", "="} :
                        Holds(text, k)
                  \/ /\ \E d \in DigitSet : includes(text, d)
                     /\ \E c \in {"+", "-", "*", "/", "(", ")"} : includes(text, c)
      [] n = 3 -> Holds(text, "weather")
      [] n = 4 -> \E k \in {"translate", "translation", "say in", "how do you say"} :
                        Holds(text, k)
      [] n = 5 -> Holds(text, "stream")
      [] n = 6 -> Holds(text, "push notification")
      [] n = 7 -> TRUE

IntentNames == <<"Greeting", "Calculation", "Weather", "Translation", "Streaming",
                 "PushNotification", "General">>

\* the intent of the first rule that matches
FirstMatch(text) ==
    IntentNames[CHOOSE n \in 1..7 : Rule(n, text) /\ \A m \in 1..(n - 1) : ~Rule(m, text)]

EvaluatorThrows(t) ==
    /\ Intent(t) = "Calculation"
    /\ ResidualExpression(UserText(request[t])) # ""
    /\ Eval(ResidualExpression(UserText(request[t]))).throws

\* the final=true event that wraps a result of handleTask's catch block for error e
IsProcessingErrorFinal(e, err) ==
    /\ IsFinal(e)
    /\ e.status.state = "failed"
    /\ e.status.message.parts[1].text
          = "Error: " \o (IF err.isError THEN err.message ELSE "Unknown error occurred")
    /\ e.metadata # Undefined
    /\ "errorType" \in DOMAIN e.metadata
    /\ e.metadata.errorType = "processing_error"
    /\ e.metadata.creditsUsed = 1

\* C10 as stated: an exception raised while a handler runs, the arithmetic
\* evaluator throwing included, surfaces as a final=true event with state "failed",
\* text "Error: <exception message>", creditsUsed 1 and errorType "processing_error".
C10_EvaluatorThrowSurfacesAsProcessingError ==
    \A t \in TaskIds :
        (Invoked(t) /\ FinalUpdatePublished(t) /\ EvaluatorThrows(t)) =>
            \E err \in {[isError |-> TRUE, message |-> "Unexpected end of input"]} \cup Thrown :
                IsProcessingErrorFinal(Events(t)[Len(Events(t))], err)

\* C10 amended: an exception that escapes a handler (an event-bus publish raising
\* inside the streaming or the push-notification handler, or the phrase-table lookup
\* of the translation handler raising a TypeError) is caught by handleTask
\* and surfaces as a final=true event with state "failed", text "Error: <message>"
\* ("Error: Unknown error occurred" when the thrown value is no Error), creditsUsed 1
\* and errorType "processing_error"; the arithmetic evaluator throwing is caught
\* inside handleCalculation and surfaces as a final=true event with state "failed",
\* text "Error: Invalid mathematical expression", creditsUsed 1 and no errorType.
C10_HandlerExceptionSurfaces ==
    \A t \in TaskIds :
        Invoked(t) =>
            /\ handlerError[t] # NoError =>
                  /\ result[t].state = "failed"
                  /\ ~expectsMoreUpdates[t]
                  /\ pc[t] # "handleTask"
                  /\ FinalUpdatePublished(t) =>
                        IsProcessingErrorFinal(Events(t)[Len(Events(t))], handlerError[t])
            /\ (FinalUpdatePublished(t) /\ handlerError[t] = NoError /\ EvaluatorThrows(t)) =>
                  LET e == Events(t)[Len(Events(t))]
                  IN  /\ IsFinal(e)
                      /\ e.status.state = "failed"
                      /\ e.status.message.parts[1].text
                            = "Error: Invalid mathematical expression"
                      /\ e.metadata.creditsUsed = 1
                      /\ "errorType" \notin DOMAIN e.metadata

\* a publish raised inside the streaming loop with a value that is no Error, and
\* the failed result was published as the final event
C10_Witness ==
    \E t \in TaskIds :
        /\ Invoked(t) /\ FinalUpdatePublished(t)
        /\ handlerError[t] # NoError
        /\ i[t] > 1
        /\ ~handlerError[t].isError

\* the events of task t that carry errorType "agent_error"
AgentErrorIndexes(t) ==
    {k \in 1..Len(Events(t)) :
        /\ IsStatusUpdate(Events(t)[k])
        /\ Events(t)[k].metadata # Undefined
        /\ "errorType" \in DOMAIN Events(t)[k].metadata
        /\ Events(t)[k].metadata.errorType = "agent_error"}

\* C11: any error that escapes the body of execute (the publication of the task
\* record, of the final update, or eventBus.finished() raising) results in one
\* status-update event with state "failed", final=true and errorType "agent_error",
\* followed by eventBus.finished(); execute never rejects because of such an error.
C11_OuterBoundary ==
    \A t \in TaskIds :
        error[t] # NoError =>
            /\ pc[t] # "rejected"
            /\ pc[t] = "catchFinish" => bus[t][Len(bus[t])] = ErrorUpdate(request[t], error[t])
            /\ pc[t] = "returned" =>
                  /\ Len(bus[t]) >= 2
                  /\ bus[t][Len(bus[t])] = FinishedMark
                  /\ bus[t][Len(bus[t]) - 1] = ErrorUpdate(request[t], error[t])
                  /\ Cardinality(AgentErrorIndexes(t)) = 1

\* the same, for the runs in which the two event-bus calls of the catch block return
C11_OuterBoundaryWhenCatchReturns ==
    \A t \in TaskIds :
        (error[t] # NoError /\ pc[t] = "returned") =>
            /\ Len(bus[t]) >= 2
            /\ bus[t][Len(bus[t])] = FinishedMark
            /\ bus[t][Len(bus[t]) - 1] = ErrorUpdate(request[t], error[t])
            /\ Cardinality(AgentErrorIndexes(t)) = 1

(***************************************************************************)
(* Claims about the handlers, checked under SpecHandlers                   *)
(***************************************************************************)
HandlerCalled(handler) == handled # NoCall /\ handled.handler = handler

\* the result is a failed TaskHandlerResult charged one credit
FailedOneCredit(r) ==
    /\ ~Escaped(r)
    /\ r.state = "failed"
    /\ r.metadata.creditsUsed = 1

\* every whitespace-free expression residue of the texts is in the modelled part of eval
HandlerTextsInFragment ==
    \A userText \in HandlerTexts : InFragment(ResidualExpression(userText))

\* C12: user-input errors are returned, never thrown: handleCalculation with an empty
\* residual expression or an expression whose evaluation throws, handleWeatherRequest
\* with an empty location and handleTranslationRequest with a text that does not
\* match the translate pattern each return a failed result with creditsUsed 1
\* ("Calculate " and 'Translate "bonjour"' among them), and no input text makes an
\* exception leave one of these handlers.
C12_UserInputErrorsReturned ==
    /\ HandlerCalled("handleCalculation") =>
          /\ ~Escaped(handled.result)
          /\ (\/ ResidualExpression(handled.userText) = ""
              \/ Eval(ResidualExpression(handled.userText)).throws
              \/ handled.userText = "Calculate ") => FailedOneCredit(handled.result)
    /\ HandlerCalled("handleWeatherRequest") =>
          /\ ~Escaped(handled.result)
          /\ ExtractLocation(handled.userText) = "" => FailedOneCredit(handled.result)
    /\ HandlerCalled("handleTranslationRequest") =>
          /\ ~Escaped(handled.result)
          /\ (\/ ~translationMatch(handled.userText).ok
              \/ handled.userText = "Translate \"bonjour\"") => FailedOneCredit(handled.result)

\* the part of C12 about the results returned for user-input errors
C12_UserInputErrorsFail ==
    /\ HandlerCalled("handleCalculation") =>
          /\ ~Escaped(handled.result)
          /\ (\/ ResidualExpression(handled.userText) = ""
              \/ Eval(ResidualExpression(handled.userText)).throws
              \/ handled.userText = "Calculate ") => FailedOneCredit(handled.result)
    /\ HandlerCalled("handleWeatherRequest") =>
          /\ ~Escaped(handled.result)
          /\ ExtractLocation(handled.userText) = "" => FailedOneCredit(handled.result)
    /\ HandlerCalled("handleTranslationRequest") =>
          ((\/ ~translationMatch(handled.userText).ok
            \/ handled.userText = "Translate \"bonjour\"") => FailedOneCredit(handled.result))

\* requests made of a trigger phrase and an arithmetic expression: the text, the
\* expression as written after the trigger phrase, the same without the characters
\* that are no digit, operator, parenthesis or point, and its value
CalculationCases ==
    {[userText |-> "Calculate 15 * 7", written |-> "15 * 7",
      expression |-> "15*7", value |-> Rat(105, 1)],
     [userText |-> "What is (25 + 15) * 2 / 4?", written |-> "(25 + 15) * 2 / 4?",
      expression |-> "(25+15)*2/4", value |-> Rat(20, 1)],
     [userText |-> "compute 7 / 2", written |-> "7 / 2",
      expression |-> "7/2", value |-> Rat(7, 2)],
     [userText |-> "Solve 1.5 + 2.25", written |-> "1.5 + 2.25",
      expression |-> "1.5+2.25", value |-> Rat(15, 4)],
     [userText |-> "MATH 10 - 3 * 2", written |-> "10 - 3 * 2",
      expression |-> "10-3*2", value |-> Rat(4, 1)],
     [userText |-> "calculate 2 * (3 + 4) - 1", written |-> "2 * (3 + 4) - 1",
      expression |-> "2*(3+4)-1", value |-> Rat(13, 1)],
     [userText |-> "Calculate -5 + 2", written |-> "-5 + 2",
      expression |-> "-5+2", value |-> Rat(-3, 1)],
     [userText |-> "Calculate 10 * 3", written |-> "10 * 3",
      expression |-> "10*3", value |-> Rat(30, 1)],
     [userText |-> "Calculate 2+2", written |-> "2+2",
      expression |-> "2+2", value |-> Rat(4, 1)]}

\* the handler returned a completed calculation charged two credits, with value v
CompletedCalculation(r, v) ==
    /\ ~Escaped(r)
    /\ r.state = "completed"
    /\ r.metadata.creditsUsed = 2
    /\ r.metadata.result = v

\* C13 as stated: for a Calculation input made of a trigger phrase followed by an
\* arithmetic expression the handler returns state "completed" with creditsUsed 2,
\* metadata.expression the expression text that follows the trigger phrase and
\* metadata.result its value: "Calculate 15 * 7" gives "15 * 7" and 105.
C13_ExpressionAsWritten ==
    \A c \in CalculationCases :
        (HandlerCalled("handleCalculation") /\ handled.userText = c.userText) =>
            /\ CompletedCalculation(handled.result, c.value)
            /\ handled.result.metadata.expression = c.written

\* C13 amended: for such an input the handler returns state "completed" with
\* creditsUsed 2, metadata.result the value of the expression, and metadata.expression
\* the text that follows the trigger phrase with every character removed that is not
\* a digit, one of + - * / ( ) or a point: "Calculate 15 * 7" gives "15*7" and 105.
C13_ExpressionWithoutSpaces ==
    \A c \in CalculationCases :
        (HandlerCalled("handleCalculation") /\ handled.userText = c.userText) =>
            /\ CompletedCalculation(handled.result, c.value)
            /\ handled.result.metadata.expression = c.expression
            /\ handled.result.parts[1].text
                  = "Calculation Result:\n" \o c.expression \o " = " \o NumberToString(c.value)

\* handleCalculation was called on "Calculate 15 * 7"
C13_Witness ==
    /\ HandlerCalled("handleCalculation")
    /\ handled.userText = "Calculate 15 * 7"
    /\ handled.result.metadata.result = Rat(105, 1)

\* weather requests and the text that follows the word "weather" and an optional
\* "in" in them, blanks at its ends apart
WeatherCases ==
    {[userText |-> "Weather in London", location |-> "London"],
     [userText |-> "Weather in Tokyo", location |-> "Tokyo"],
     [userText |-> "weather Paris", location |-> "Paris"],
     [userText |-> "WEATHER IN Berlin", location |-> "Berlin"],
     [userText |-> "What is the weather in New York", location |-> "New York"],
     [userText |-> "weather   in   Rome  ", location |-> "Rome"],
     [userText |-> "What is the weather today", location |-> "today"],
     [userText |-> "weather in ", location |-> ""],
     [userText |-> "Weather ", location |-> ""],
     [userText |-> "Weather in", location |-> ""],
     [userText |-> "What is the weather", location |-> ""],
     [userText |-> "the weather", location |-> ""],
     [userText |-> "weather", location |-> ""]}

\* what C14 says of one weather request
LocationReported(r, location) ==
    IF location = "" THEN FailedOneCredit(r)
    ELSE /\ ~Escaped(r)
         /\ r.state = "completed"
         /\ r.metadata.creditsUsed = 3
         /\ r.metadata.location = location

\* C14: for every text handled as Weather the reported location is the text that
\* follows the word "weather" and an optional "in" ("Weather in London" gives
\* "London", completed, creditsUsed 3); when no location text follows the word
\* "weather" the result is state "failed" with creditsUsed 1.
C14_LocationFollowsWeather ==
    \A c \in WeatherCases :
        (HandlerCalled("handleWeatherRequest") /\ handled.userText = c.userText) =>
            LocationReported(handled.result, c.location)

\* the same, for the requests in which a blank follows the word "weather"
C14_LocationWhenBlankFollows ==
    \A c \in WeatherCases :
        (/\ HandlerCalled("handleWeatherRequest")
         /\ handled.userText = c.userText
         /\ c.userText \notin {"Weather in", "What is the weather", "the weather", "weather"}) =>
            LocationReported(handled.result, c.location)

\* requests that match translate "<text>" to <language>, with the text and the
\* language as written in them
TranslationCases ==
    {[userText |-> "Translate \"hello\" to Spanish", text |-> "hello", language |-> "Spanish"],
     [userText |-> "Translate \"goodbye\" to French", text |-> "goodbye", language |-> "French"],
     [userText |-> "Translate \"thank you\" to German", text |-> "thank you", language |-> "German"],
     [userText |-> "TRANSLATE \"Hello\" TO SPANISH", text |-> "Hello", language |-> "SPANISH"],
     [userText |-> "Translate \"Good Morning\" to french", text |-> "Good Morning", language |-> "french"],
     [userText |-> "Please translate \"how are you\" to French now", text |-> "how are you", language |-> "French"],
     [userText |-> "translate 'cat' to Dutch", text |-> "cat", language |-> "Dutch"],
     [userText |-> "translate 'hello' to Klingon", text |-> "hello", language |-> "Klingon"],
     [userText |-> "Translate \"name\" to constructor", text |-> "name", language |-> "constructor"],
     [userText |-> "Translate \"length\" to constructor", text |-> "length", language |-> "constructor"],
     [userText |-> "Translate \"caller\" to constructor", text |-> "caller", language |-> "constructor"],
     [userText |-> "Translate \"constructor\" to Spanish", text |-> "constructor", language |-> "Spanish"],
     [userText |-> "Translate \"hello\" to __proto__", text |-> "hello", language |-> "__proto__"],
     [userText |-> "Translate \"constructor\" to __proto__", text |-> "constructor", language |-> "__proto__"]}

\* the phrase-table entry for (lowercased language, lowercased text), else
\* "<text> (<language>)"
EntryOrFallback(text, language) ==
    IF /\ toLowerCase(language) \in {"spanish", "french", "german"}
       /\ toLowerCase(text) \in {"hello", "goodbye", "thank you", "good morning", "how are you"}
    THEN translations[toLowerCase(language)][PhraseKey(toLowerCase(text))]
    ELSE text \o " (" \o language \o ")"

\* what C15 says of one translation request
Translated(r, text, language) ==
    /\ ~Escaped(r)
    /\ r.state = "completed"
    /\ r.metadata.creditsUsed = 4
    /\ r.metadata.translatedText = JsString(EntryOrFallback(text, language))
    /\ r.parts[1].text = "Translation:\n\"" \o text \o "\" -> \""
                            \o EntryOrFallback(text, language) \o "\" (" \o language \o ")"

\* C15: for every text matching translate "<text>" to <language> (letter case apart)
\* handleTranslationRequest returns state "completed" with creditsUsed 4 and a
\* translation that is the phrase-table entry for (lowercased language, lowercased
\* text) when there is one, and otherwise exactly "<text> (<language>)" with the text
\* and the language as written in the request.
C15_TableEntryOrFallback ==
    \A c \in TranslationCases :
        (HandlerCalled("handleTranslationRequest") /\ handled.userText = c.userText) =>
            Translated(handled.result, c.text, c.language)

\* the same, for the languages and texts that name no property of Object.prototype
\* or of the function Object
C15_TableEntryOrFallbackOwnKeys ==
    \A c \in TranslationCases :
        (/\ HandlerCalled("handleTranslationRequest")
         /\ handled.userText = c.userText
         /\ c.language \notin {"constructor", "__proto__"}
         /\ c.text # "constructor") =>
            Translated(handled.result, c.text, c.language)

(***************************************************************************)
(* Claims about the transport client                                       *)
(***************************************************************************)
TakesToken(operation) ==
    operation \in {"sendMessage", "sendStreamingMessage", "setPushNotificationConfig"}

\* the payload an operation builds from its arguments other than the token
PayloadOf(call) ==
    CASE call.operation = "getTask" -> GetTaskPayload(call.arguments.taskId)
      [] call.operation = "sendMessage" ->
            SendMessagePayload(call.arguments.messageId, call.arguments.message)
      [] call.operation = "sendStreamingMessage" ->
            SendStreamingMessagePayload(call.arguments.messageId, call.arguments.message,
                                        call.arguments.pushNotification)
      [] call.operation = "setPushNotificationConfig" ->
            SetPushNotificationConfigPayload(call.arguments.taskId,
                                             call.arguments.pushNotificationConfig)

\* but for the Authorization header, the request is the one of the same call made
\* without a token
SameButAuthorization(fetched, call) ==
    /\ fetched.method = "POST"
    /\ fetched.url = baseUrl
    /\ fetched.body = Stringify(PayloadOf(call))
    /\ DOMAIN fetched.headers \subseteq {"Content-Type", "Authorization"}
    /\ fetched.headers["Content-Type"] = "application/json"

\* C16: sendMessage, sendStreamingMessage and setPushNotificationConfig send the
\* header 'Authorization: Bearer <token>' exactly when a token is supplied, with the
\* token value unchanged, and no Authorization header otherwise; the token changes
\* nothing else of the request (method, URL, body).
C16_BearerExactlyWhenSupplied ==
    \A k \in 1..Len(returns) :
        TakesToken(returns[k].operation) =>
            LET bearerToken == returns[k].arguments.bearerToken
                headers == fetches[k].headers
            IN  /\ ("Authorization" \in DOMAIN headers) <=> (bearerToken # NoToken)
                /\ bearerToken # NoToken =>
                      headers["Authorization"] = "Bearer " \o bearerToken.value
                /\ SameButAuthorization(fetches[k], returns[k])

\* the same for every token but the empty string, for which no header is sent
C16_BearerWhenNotEmpty ==
    \A k \in 1..Len(returns) :
        TakesToken(returns[k].operation) =>
            LET bearerToken == returns[k].arguments.bearerToken
                headers == fetches[k].headers
                given == bearerToken # NoToken /\ bearerToken.value # ""
            IN  /\ ("Authorization" \in DOMAIN headers) <=> given
                /\ given => headers["Authorization"] = "Bearer " \o bearerToken.value
                /\ SameButAuthorization(fetches[k], returns[k])

\* a JSON-RPC response that carries an error: in a JSON body, as the body of an
\* answer to message/stream, or in a frame of the stream
CarriesError(response) ==
    /\ response.kind = "response"
    /\ response.ok
    /\ \/ "json" \in DOMAIN response /\ response.json.parses
                                     /\ HasError(response.json.data)
       \/ "body" \in DOMAIN response
             /\ \/ response.body = ErrorJson
                \/ \E k \in 1..Len(response.frames) : response.frames[k].json = ErrorJson

IsFailure(response) ==
    response.kind = "response" /\ (~response.ok \/ CarriesError(response))

\* the outcome of a call is a reported failure: nothing is raised, and what is
\* returned is null, false or the error body, or is no value with an error line
\* written
ReportedFailure(outcome) ==
    /\ ~outcome.rejected
    /\ \/ outcome.value \in {JsNull, JsBoolean(FALSE)}
       \/ HasError(outcome.value)
       \/ /\ outcome.value = JsUndefined
          /\ \E k \in 1..Len(outcome.lines) : outcome.lines[k].level = "error"

\* C17: for each of the four operations (message/send, message/stream, tasks/get,
\* tasks/pushNotificationConfig/set), a non-2xx response or a JSON-RPC response
\* carrying an error is reported as a failure without raising: the operation
\* returns a null/false/error sentinel and never a success value; a later operation
\* (the second call of the client as much as the first) is reported the same way.
C17_FailuresReported ==
    \A k \in 1..Len(returns) :
        IsFailure(returns[k].response) => ReportedFailure(returns[k].outcome)

\* the same but for a JSON-RPC error that answers message/stream
C17_FailuresReportedButStreamErrors ==
    \A k \in 1..Len(returns) :
        (/\ IsFailure(returns[k].response)
         /\ ~(returns[k].operation = "sendStreamingMessage"
                /\ CarriesError(returns[k].response))) =>
            ReportedFailure(returns[k].outcome)

\* s is the start of q
IsPrefix(s, q) == Len(s) <= Len(q) /\ s = SubSeq(q, 1, Len(s))

\* the lines that report frames or events: those that begin with a tag in brackets
IsReport(line) == StartsAt(line.text, "[", 1)

Reported == SelectSeq(console, IsReport)

\* the lines the listener of sendStreamingMessage writes for a stream of frames that
\* is processed in order and up to its first final frame
RECURSIVE ListenerLines(_)
ListenerLines(frames) ==
    IF frames = << >> THEN << >>
    ELSE LET frame == Head(frames)
             parsed == JSONparse(frame.json)
         IN  IF frame.json = "" THEN ListenerLines(Tail(frames))
             ELSE IF parsed.throws THEN << ParsingErrorLine >> \o ListenerLines(Tail(frames))
             ELSE IF parsed.value.final = JsBoolean(TRUE)
             THEN << StreamingEventLine(parsed.value), FinalReceivedLine >>
             ELSE << StreamingEventLine(parsed.value) >> \o ListenerLines(Tail(frames))

\* the lines a for-await loop writes for events taken in order and up to the first
\* final one
RECURSIVE LoopLines(_, _)
LoopLines(test, events) ==
    IF events = << >> THEN << >>
    ELSE IF Head(events).final = JsBoolean(TRUE)
    THEN << EventLine(test, Head(events)), FinalEventLine(test) >>
    ELSE << EventLine(test, Head(events)) >> \o LoopLines(test, Tail(events))

\* a line as it reads when the decoding damaged none of its characters: C18 is about
\* which frames are reported, whatever the decoding made of their characters
Restored(line) ==
    IF \E mark \in BulletDecodings : line.text = "[Streaming Event] " \o GreetingJson(mark)
    THEN [line EXCEPT !.text = "[Streaming Event] " \o GreetingJson(Bullet)]
    ELSE line

RestoredLines(lines) == [k \in 1..Len(lines) |-> Restored(lines[k])]

\* what a consumer has reported is, at every moment, what the frames in arrival
\* order up to the first final one make it report, and all of it once it has stopped
\* on a stream that was sent whole
ReportedUpToFirstFinal ==
    /\ nodeStream.state # "none" =>
          LET lines == ListenerLines(returns[1].response.frames)
          IN  /\ IsPrefix(RestoredLines(Reported), lines)
              /\ streamClosed <=> nodeStream.state = "destroyed"
              /\ nodeStream.state \in {"destroyed", "ended"} => RestoredLines(Reported) = lines
    /\ awaited.state # "none" =>
          LET lines == LoopLines(awaited.test, awaited.all)
          IN  /\ IsPrefix(Reported, lines)
              /\ awaited.state = "done" => Reported = lines

\* once a consumer has stopped, nothing is parsed or written any more
NothingAfterStop ==
    (nodeStream.state \in {"destroyed", "ended", "errored"}
        \/ awaited.state \in {"done", "failed"}) =>
            /\ console' = console
            /\ buffer' = buffer
            /\ nodeStream' = nodeStream
            /\ awaited' = awaited

\* C18: a streaming consumer processes frames in arrival order and stops at the first
\* frame whose result.status.final is true or when the connection closes; after that
\* frame no later frame is parsed or reported, neither one buffered in the same chunk
\* nor data arriving afterwards; for the listener of sendStreamingMessage and for the
\* for-await loops of the payments client.
C18_StopsAtFirstFinal == []ReportedUpToFirstFinal /\ [][NothingAfterStop]_vars

\* the listener has stopped at a final frame with a whole later frame left unread in
\* its buffer
C18_Witness ==
    /\ nodeStream.state = "destroyed"
    /\ indexOf(buffer, "\n\n") # 0
    /\ Len(Reported) = 3

(***************************************************************************)
(* Claims about cancellation and interleaving                              *)
(***************************************************************************)
\* a call of cancelTask(t) publishes nothing and changes nothing of any task
CancelChangesNothing ==
    \A t \in TaskIds : cancels'[t] # cancels[t] => UNCHANGED executorVars

\* a cancelled task on which no event-bus call raised publishes what it would have
\* published: a streaming task its 13 events, a push-notification task its task
\* record, its "working" update and the completed final event of the finalizer
CancelledTaskRunsToItsEnd ==
    \A t \in TaskIds :
        (cancels[t] > 0 /\ Quiescent(t) /\ raises[t] = 0) =>
            /\ Intent(t) = "Streaming" =>
                  /\ Len(Events(t)) = totalMessages + 3
                  /\ FinalIndexes(t) = {totalMessages + 3}
            /\ Intent(t) = "PushNotification" =>
                  /\ Len(Events(t)) = 3
                  /\ FinalIndexes(t) = {3}
                  /\ Events(t)[3] = PushCompletedEvent(request[t].taskId, request[t].contextId)

\* C19: cancelTask(taskId) is a no-op: called at any point, it publishes no event and
\* changes no task, so a streaming loop in flight or a pending push-notification
\* finalization of that task continues and still publishes all of its remaining
\* events, the final one included.
C19_CancelIsNoOp == [][CancelChangesNothing]_vars /\ []CancelledTaskRunsToItsEnd

\* cancelTask was called for a streaming task that is in its loop, and for a
\* push-notification task whose finalizer waits
C19_Witness ==
    \E t \in TaskIds :
        /\ cancels[t] > 0
        /\ \/ pc[t] = "streamSleep" /\ i[t] = 5
           \/ fin[t] = "waiting" /\ pc[t] = "returned"

\* what the task of an interleaved request publishes when it runs alone on an event
\* bus that does not raise: its events in their order, and the mark of finished()
AloneBus(req) ==
    LET text == UserText(req)
    IN  CASE text = "Start streaming" ->
                << NewTask(req) >>
                \o [k \in 1..totalMessages |-> ProgressEvent(req, k)]
                \o << StreamingFinishedEvent(req), FinalUpdate(req, StreamingResult),
                      FinishedMark >>
          [] text = "Send me a push notification" ->
                << NewTask(req), PushWorkingEvent(req),
                   PushCompletedEvent(req.taskId, req.contextId), FinishedMark >>
          [] text = "Hello there!" ->
                << NewTask(req), FinalUpdate(req, handleGreeting(text)), FinishedMark >>

\* the task and context an event was published for
TaskOf(e) == IF e.kind = "task" THEN e.id ELSE e.taskId

\* C20: tasks are independent under interleaving: when the execute invocations of two
\* tasks run interleaved at the suspension points (streaming ticks, the wait of the
\* push finalization), every event published for a task carries that task's own taskId
\* and contextId, and the sequence of events of each task is the one it publishes
\* when it runs alone (for a task whose own event bus did not raise, whatever
\* happens to the other task).
C20_TasksIndependent ==
    \A t \in TaskIds :
        Invoked(t) =>
            /\ \A k \in 1..Len(bus[t]) :
                  bus[t][k] # FinishedMark =>
                      /\ TaskOf(bus[t][k]) = t
                      /\ bus[t][k].contextId = ContextOf(t)
            /\ raises[t] = MaxRaises - 1 =>
                  /\ IsPrefix(bus[t], AloneBus(request[t]))
                  /\ Quiescent(t) => bus[t] = AloneBus(request[t])

\* one task is in its streaming loop while the finalizer of the other has published
C20_Witness ==
    /\ pc["t1"] = "streamSleep" /\ i["t1"] = 4
    /\ fin["t2"] = "done"
    /\ Len(bus["t2"]) = 4
    /\ raises["t1"] = MaxRaises - 1

(***************************************************************************)
(* Claims about the publishers of one task                                 *)
(***************************************************************************)
\* the parts of the program that are at a point from which they publish for task t
\* without another of them running first: the body of execute (handleTask and its
\* handlers but the streaming loop included), the streaming loop, the finalizer
Publishers(t) ==
    (IF \/ pc[t] \in {"handleTask", "finish", "catch", "catchFinish"}
        \/ pc[t] = "afterHandle" /\ ~expectsMoreUpdates[t]
     THEN {"execute"} ELSE {})
    \cup (IF pc[t] \in {"streamLoop", "streamSleep"} THEN {"streaming loop"} ELSE {})
    \cup (IF fin[t] \in {"waiting", "ready", "finish"} THEN {"finalizer"} ELSE {})

AtMostOnePublisher == \A t \in TaskIds : Cardinality(Publishers(t)) <= 1

\* the finalizer is started by the push-notification handler only, and once it is
\* started every call on the event bus of the task is the finalizer's
FinalizerPublishesAlone ==
    \A t \in TaskIds :
        /\ (fin[t] = "none" /\ fin'[t] # "none") =>
              /\ pc[t] = "handleTask"
              /\ classify(UserText(request[t])) = "PushNotification"
              /\ fin'[t] = "waiting"
        /\ (fin[t] # "none" /\ (bus'[t] # bus[t] \/ raises'[t] # raises[t])) =>
              /\ fin[t] \in {"ready", "finish"}
              /\ pc'[t] = pc[t]
              /\ pc[t] = "returned"

\* C21: no concurrent publishers exist for the same task: at any moment at most one
\* of the body of execute, the streaming loop and the background finalizer can
\* publish for the task; the finalizer is started only by the push-notification
\* handler, and once it is started the executor path publishes nothing further.
C21_NoConcurrentPublishers == []AtMostOnePublisher /\ [][FinalizerPublishesAlone]_vars

\* the finalizer has published its event after execute returned
C21_Witness ==
    /\ fin["t1"] = "finish"
    /\ pc["t1"] = "returned"
    /\ Len(bus["t1"]) = 3

(***************************************************************************)
(* Claims about the streaming emitter and the task record                  *)
(***************************************************************************)
IsStreamingTask(t) == Invoked(t) /\ classify(UserText(request[t])) = "Streaming"

\* what the bus of t holds after the task record
AfterTaskRecord(t) == SubSeq(bus[t], 2, Len(bus[t]))

\* the events of the streaming loop in their order: the ten progress events, then
\* "Streaming finished!"
LoopEvents(req) ==
    [k \in 1..10 |->
        StatusUpdate(req.taskId, req.contextId, "working",
            << TextPart("Streaming message " \o NatToString(k) \o "/10") >>, FALSE,
            Undefined)]
    \o << StatusUpdate(req.taskId, req.contextId, "working",
              << TextPart("Streaming finished!") >>, FALSE, Undefined) >>

\* where the emitter stands: while it emits, the events i..10 are still to come, and
\* when it has returned its result all of its events are on the bus
EmitterInPhase ==
    \A t \in TaskIds :
        IsStreamingTask(t) =>
            /\ pc[t] = "streamLoop" =>
                  /\ i[t] \in 1..11
                  /\ AfterTaskRecord(t) = SubSeq(LoopEvents(request[t]), 1, i[t] - 1)
            /\ pc[t] = "streamSleep" =>
                  /\ i[t] \in 1..10
                  /\ AfterTaskRecord(t) = SubSeq(LoopEvents(request[t]), 1, i[t])
            /\ (pc[t] = "afterHandle" /\ handlerError[t] = NoError) =>
                  AfterTaskRecord(t) = LoopEvents(request[t])
            /\ (pc[t] = "afterHandle" /\ handlerError[t] # NoError) =>
                  /\ IsPrefix(AfterTaskRecord(t), LoopEvents(request[t]))
                  /\ Len(AfterTaskRecord(t)) < 11

\* a tick publishes one event and suspends; nothing is published while the loop is
\* suspended, and the timer advances i by one
TicksAreSeparated ==
    \A t \in TaskIds :
        /\ (pc[t] = "streamLoop" /\ bus'[t] # bus[t] /\ i[t] <= 10) =>
              /\ pc'[t] = "streamSleep"
              /\ i'[t] = i[t]
              /\ Len(bus'[t]) = Len(bus[t]) + 1
        /\ pc[t] = "streamSleep" =>
              /\ bus'[t] = bus[t]
              /\ pc'[t] # pc[t] => pc'[t] = "streamLoop" /\ i'[t] = i[t] + 1

HandlerEntered(t) ==
    \/ pc[t] \in {"handleTask", "streamLoop", "streamSleep", "afterHandle", "finish"}
    \/ result[t] # NoResult

\* C23: on receipt, when the request has no task record attached, execute constructs
\* one with id = taskId, the request's contextId, state 'submitted' and history equal
\* to exactly the inbound user message, and publishes it before the handler runs;
\* when the request carries a task record, execute publishes that record unchanged
\* and constructs nothing.
C23_TaskRecordPublishedFirst ==
    \A t \in TaskIds :
        Invoked(t) =>
            /\ pc[t] = "handleTask" => Len(bus[t]) = 1
            /\ \A k \in 2..Len(bus[t]) : bus[t][k].kind # "task"
            /\ ~HandlerEntered(t) => \A k \in 1..Len(bus[t]) : bus[t][k].kind # "task"
            /\ HandlerEntered(t) =>
                  LET published == bus[t][1]
                      req == request[t]
                  IN  IF req.task = Undefined
                      THEN /\ published.kind = "task"
                           /\ published.id = req.taskId
                           /\ published.contextId = req.contextId
                           /\ published.status.state = "submitted"
                           /\ published.history = << req.userMessage >>
                      ELSE published = req.task

\* a follow-up request: the record it carries is on the bus, with its state and its
\* history of two messages, when the handler is entered
C23_Witness ==
    /\ pc["t1"] = "handleTask"
    /\ request["t1"].task # Undefined
    /\ bus["t1"] = << request["t1"].task >>
    /\ bus["t1"][1].status.state = "working"
    /\ Len(bus["t1"][1].history) = 2

(***************************************************************************)
(* Claims about the results of the handlers                                *)
(***************************************************************************)
\* the capability summary: what follows the greeting in every greeting response
CapabilitySummary ==
    LET text == handleGreeting("").parts[1].text
    IN  SubSeq(text, Len("Hello") + 1, Len(text))

\* text is word followed by the capability summary
GreetsWith(text, word) == text = word \o CapabilitySummary

\* the result is a completed greeting charged one credit
CompletedGreeting(r) ==
    /\ ~Escaped(r)
    /\ r.state = "completed"
    /\ r.metadata.creditsUsed = 1
    /\ Len(r.parts) = 1

\* C24: for every text handled as Greeting, the response is the static capability
\* summary prefixed by the greeting word detected in the text (for example 'Hello' for
\* 'Hello, calculate 2+2'), and by 'Hello' when no greeting word is detected; state is
\* 'completed' and creditsUsed is 1, and the handler never fails.
C24_GreetingWordEchoed ==
    HandlerCalled("handleGreeting") =>
        LET text == handled.result.parts[1].text
            lower == toLowerCase(handled.userText)
        IN  /\ CompletedGreeting(handled.result)
            /\ IF isGreeting(handled.userText)
               THEN \E n \in 1..Len(greetings) :
                        /\ includes(lower, greetings[n])
                        /\ Len(text) >= Len(greetings[n])
                        /\ toLowerCase(SubSeq(text, 1, Len(greetings[n]))) = greetings[n]
                        /\ GreetsWith(text, SubSeq(text, 1, Len(greetings[n])))
               ELSE GreetsWith(text, "Hello")

\* what the handler does: the prefix is the whole text of the user when a greeting
\* word is detected in it
C24_UserTextEchoed ==
    HandlerCalled("handleGreeting") =>
        /\ CompletedGreeting(handled.result)
        /\ GreetsWith(handled.result.parts[1].text,
                      IF isGreeting(handled.userText) THEN handled.userText ELSE "Hello")

\* a weather report within the ranges of the specification
WithinRanges(weatherData) ==
    /\ weatherData.temperature \in Int /\ weatherData.temperature \in 5..35
    /\ weatherData.humidity \in Int /\ weatherData.humidity \in 30..70
    /\ weatherData.windSpeed \in Int /\ weatherData.windSpeed \in 5..25
    /\ weatherData.description \in
          {"Sunny", "Cloudy", "Rainy", "Snowy", "Windy", "Partly Cloudy"}

\* C25: every weather report produced by a completed Weather result has an integer
\* temperature within [5,35], an integer humidity within [30,70], an integer wind
\* speed within [5,25] and a condition drawn from the fixed list of six conditions,
\* whatever values the random source returns in [0,1).
C25_WeatherWithinRanges ==
    (HandlerCalled("handleWeatherRequest") /\ handled.result.state = "completed") =>
        /\ WithinRanges(handled.result.metadata.weatherData)
        /\ handled.result.metadata.weatherData
              = simulateWeatherAPI(handled.result.metadata.location, handled.rnd)
        /\ \A k \in 0..(RandomDen - 1) :
              WithinRanges(simulateWeatherAPI(handled.result.metadata.location,
                                              << k, RandomDen - 1 - k, k, k >>))

\* a report made of the greatest draws: the last condition, 34 degrees, 69 %, 24 km/h
C25_Witness ==
    /\ HandlerCalled("handleWeatherRequest")
    /\ handled.result.state = "completed"
    /\ handled.result.metadata.weatherData.description = "Partly Cloudy"
    /\ handled.result.metadata.weatherData.temperature = 34
    /\ handled.result.metadata.weatherData.humidity = 69
    /\ handled.result.metadata.weatherData.windSpeed = 24

\* the characters of arithmetic: the digits, the four operators, the parentheses and
\* the point
ArithmeticCharacters ==
    {"0", "1", "2", "3", "4", "5", "6", "7", "8", "9", "+", "-", "*", "/", "(", ")", "."}

\* the evaluator was called: the result carries the expression it was handed
EvaluatorCalled(r) == ~Escaped(r) /\ "expression" \in DOMAIN r.metadata

\* C26: for every input text, the string handed to the expression evaluator in
\* handleCalculation is non-empty and consists only of the characters 0-9, '+', '-',
\* '*', '/', '(', ')' and '.'; no letter, quote, space or other character of the
\* user's text ever reaches the evaluator.
C26_EvaluatorInputIsArithmetic ==
    HandlerCalled("handleCalculation") =>
        /\ EvaluatorCalled(handled.result) =>
              LET expression == handled.result.metadata.expression
              IN  /\ expression # ""
                  /\ \A k \in 1..Len(expression) :
                        SubSeq(expression, k, k) \in ArithmeticCharacters
        /\ ~EvaluatorCalled(handled.result) =>
              \A k \in 1..Len(handled.userText) :
                  SubSeq(handled.userText, k, k) \in ArithmeticCharacters =>
                      FirstTrigger(handled.userText, toLowerCase(handled.userText), 1) > k

\* the evaluator was handed what is left of a text with letters, blanks and a question
\* mark
C26_Witness ==
    /\ HandlerCalled("handleCalculation")
    /\ handled.userText = "What is (25 + 15) * 2 / 4?"
    /\ EvaluatorCalled(handled.result)
    /\ handled.result.metadata.expression = "(25+15)*2/4"

(***************************************************************************)
(* Claims about the final event and finished()                             *)
(***************************************************************************)
\* the final=true event execute makes of the handler result: the one published at the
\* end of the try block
FinalUpdateIndexes(t) ==
    {k \in 1..Len(bus[t]) :
        /\ bus[t][k].kind = "status-update"
        /\ bus[t][k].final
        /\ bus[t][k].metadata # [errorType |-> "agent_error"]
        /\ bus[t][k] # PushCompletedEvent(request[t].taskId, request[t].contextId)}

\* C27: every final=true event published by the executor path has a state equal to
\* the state of the handler result it wraps, and that state is always 'completed' or
\* 'failed': no event with final=true ever carries state 'working' or 'submitted',
\* because the only handler that returns 'working' is the one for which the executor
\* skips the final event.
C27_FinalStateIsResultState ==
    \A t \in TaskIds :
        /\ \A k \in 1..Len(bus[t]) :
              (bus[t][k].kind = "status-update" /\ bus[t][k].final) =>
                  bus[t][k].status.state \in {"completed", "failed"}
        /\ \A k \in FinalUpdateIndexes(t) :
              /\ result[t] # NoResult
              /\ "state" \in DOMAIN result[t]
              /\ bus[t][k].status.state = result[t].state
              /\ ~expectsMoreUpdates[t]
        /\ (result[t] # NoResult /\ result[t].state = "working") =>
              /\ expectsMoreUpdates[t]
              /\ pc[t] \in {"afterHandle", "returned"}

\* a failed handler result wrapped in a final event with state 'failed'
C27_Witness ==
    /\ pc["t1"] = "finish"
    /\ result["t1"].state = "failed"
    /\ bus["t1"][Len(bus["t1"])].final
    /\ bus["t1"][Len(bus["t1"])].status.state = "failed"


\* where eventBus.finished() left its mark for task t
FinishedIndexes(t) == {k \in 1..Len(bus[t]) : bus[t][k] = FinishedMark}

\* finished() was called once for task t, right after the final event and after
\* nothing else; not during the streaming loop, not by an execute that returned early
FinishedOnceAfterFinal(t) ==
    /\ Cardinality(FinishedIndexes(t)) <= 1
    /\ \A k \in FinishedIndexes(t) :
          k = Len(bus[t]) /\ k > 1 /\ IsFinal(bus[t][k - 1])
    /\ \A k \in 1..Len(bus[t]) :
          (IsFinal(bus[t][k]) /\ k < Len(bus[t])) => bus[t][k + 1] = FinishedMark
    /\ pc[t] \in {"streamLoop", "streamSleep"} => FinishedIndexes(t) = {}
    /\ (pc[t] = "returned" /\ expectsMoreUpdates[t] /\ fin[t] \in {"waiting", "ready", "finish"}) =>
          FinishedIndexes(t) = {}
    /\ (Invoked(t) /\ Quiescent(t)) => Cardinality(FinishedIndexes(t)) = 1

\* C28: eventBus.finished() is called exactly once per task, immediately after that
\* task's final=true event is published and never before it: it is not called while
\* the streaming loop is running, nor when execute returns early for a
\* push-notification task, and nothing is published for the task after finished()
\* has been called.
C28_FinishedExactlyOnce == \A t \in TaskIds : FinishedOnceAfterFinal(t)

\* the same for the tasks on which no event-bus call raised
C28_FinishedOnceWhenNothingRaises ==
    \A t \in TaskIds : raises[t] = 0 => FinishedOnceAfterFinal(t)


\* the intents whose handler publishes nothing itself
OneShotIntents == {"Greeting", "Calculation", "Weather", "Translation", "General"}

\* C29: for a task classified as Greeting, Calculation, Weather, Translation or
\* General on which no call raises, execute publishes exactly two events: the task
\* record, then one final=true status update whose message parts and metadata are
\* exactly the handler result's parts and metadata; no intermediate status update is
\* published.
C29_TwoEventsForOneShotTasks ==
    \A t \in TaskIds :
        (Invoked(t) /\ raises[t] = 0 /\ Intent(t) \in OneShotIntents) =>
            LET ev == Events(t)
            IN  /\ Len(ev) <= 2
                /\ ProgressIndexes(t) = {}
                /\ Len(ev) >= 1 => ev[1].kind = "task"
                /\ pc[t] \in {"finish", "returned"} =>
                      /\ Len(ev) = 2
                      /\ IsFinal(ev[2])
                      /\ ev[2].status.message.parts = result[t].parts
                      /\ "metadata" \in DOMAIN result[t]
                      /\ ev[2].metadata = result[t].metadata
                /\ pc[t] \notin {"finish", "returned"} => Len(ev) <= 1

\* a calculation served to its end without a raise: the task record and the final
\* update with the handler's parts and metadata, then finished()
C29_Witness ==
    /\ pc["t1"] = "returned"
    /\ raises["t1"] = 0
    /\ Intent("t1") = "Calculation"
    /\ Len(bus["t1"]) = 3
    /\ bus["t1"][2].status.message.parts = result["t1"].parts
    /\ bus["t1"][2].metadata = result["t1"].metadata
    /\ bus["t1"][3] = FinishedMark


(***************************************************************************)
(* Claims about the chunks of a stream                                     *)
(***************************************************************************)
\* the frames whose last byte is among the first n bytes of the stream
RECURSIVE FramesArrived(_, _)
FramesArrived(frames, n) ==
    IF frames = << >> THEN << >>
    ELSE LET size == Len(Utf8Bytes(Head(frames).text))
         IN  IF size > n THEN << >>
             ELSE << Head(frames) >> \o FramesArrived(Tail(frames), n - size)

\* the listener has reported the frames that arrived whole, up to the first final
\* one, as they were sent, whatever chunks brought them
ReportedWhatArrived ==
    nodeStream.state # "none" =>
        Reported = ListenerLines(FramesArrived(returns[1].response.frames, nodeStream.read))

\* every byte of the stream is an ASCII character
IsAsciiStream == \A k \in 1..Len(nodeStream.wire) : Len(nodeStream.wire[k]) = 1

\* C30: the sequence of SSE frames parsed by sendStreamingMessage depends only on the
\* concatenation of the received chunks, not on where the chunk boundaries fall: a
\* frame split across chunks is parsed exactly once, when its terminating blank line
\* has arrived; a frame whose data line is not valid JSON is skipped without
\* stopping the processing of later frames; and a trailing frame with no
\* terminating blank line is never parsed.
C30_ChunkBoundariesDoNotMatter == ReportedWhatArrived

\* the same for the streams that hold ASCII characters only
C30_AsciiChunkBoundariesDoNotMatter ==
    (nodeStream.state # "none" /\ IsAsciiStream) => ReportedWhatArrived

====
